---- MODULE Spec2Model ----
(***************************************************************************)
(* Overlay geometry synchronisation, keymap edit state machine and         *)
(* play-mode command dispatch of scrcpy-macros (src/main.py MyQtApp,       *)
(* src/overlay_widget.py OverlayWidget, src/keymap.py Keymap).             *)
(*                                                                         *)
(* Normalized coordinates are Python floats (pixel / width).  They are     *)
(* modelled as exact reduced rationals [n, d]; the floating-point          *)
(* expressions of the geometry resolver, int(w / (16.0/9.0)) and           *)
(* int(h * (16.0/9.0)), agree with the integer quotients used here for     *)
(* every size up to 5000.                                                  *)
(***************************************************************************)
EXTENDS Integers, Sequences, FiniteSets, TLC

VARIABLES
    \* --- window / embedding environment read by MyQtApp ---
    containerPos,      \* scrcpy_container_widget.mapToGlobal(QPoint(0,0))
    containerSize,     \* scrcpy_container_widget.width(), .height()
    hasContainer,      \* page -> scrcpy_container_widget is set
    currentPage,       \* stacked_widget.currentIndex()
    isMaximized,       \* MyQtApp.isMaximized()
    pendingResize,     \* the window system still owes the resize of a maximize/restore
    deferred,          \* number of QTimer.singleShot(0, update_global_overlay_geometry) pending
    \* --- MyQtApp / global overlay widget ---
    overlayGeom,       \* global_overlay.geometry()
    overlayVisible,    \* global_overlay.isVisible()
    app_edit_mode,     \* MyQtApp.edit_mode_active
    lastEvent,         \* name of the handler that ran last
    keymap_file,       \* keymaps.json: whether it exists, whether it decodes, its records
    saveOutcome,       \* "saved" or "error" when the last step wrote keymaps.json, else "none"
    diskWritable,      \* whether a write of keymaps.json can complete at present
    inputEvents,       \* pointer and key events the overlay has handled so far
    lastKey,           \* event.key() when the last event was a keyPressEvent, else "None"
    \* --- OverlayWidget edit session ---
    keymaps,           \* OverlayWidget.keymaps (the shared list), a sequence of Keymap records
    edit_mode_active,  \* OverlayWidget.edit_mode_active
    dragging_keymap,   \* OverlayWidget._dragging_keymap (object id, None = 0)
    creating_keymap,   \* OverlayWidget._creating_keymap
    drag_start_pos_local,        \* OverlayWidget._drag_start_pos_local
    keymap_original_pixel_pos,   \* OverlayWidget._keymap_original_pixel_pos
    selected_keymap_for_combo_edit, \* OverlayWidget._selected_keymap_for_combo_edit (id, None = 0)
    pending_modifier_key,        \* OverlayWidget._pending_modifier_key ("None" or a key)
    emitted,           \* keymaps_changed.emit of the last handler: [fired, payload]
    \* --- command dispatch ---
    scrcpy_display_id, \* page -> scrcpy_display_id ("None" or the id as text)
    spawned,           \* subprocess.Popen calls in order: [cmd, ok] (ok = no exception)
    uncaught,          \* an exception escaped a handler
    \* --- scrcpy's standard output and its NonBlockingStreamReader ---
    scrcpy_stdout_reader, \* "None" or "reader": MainContentAreaWidget.scrcpy_stdout_reader
    written,           \* the lines scrcpy has written to its stdout so far, in order
    stdout_pipe,       \* the written lines the reader thread has not read yet
    stdout_eof,        \* scrcpy has closed its stdout
    reader_line,       \* _populateQueue's local `line` between readline and put ("None" = none)
    reader_queue,      \* NonBlockingStreamReader._queue
    returned,          \* the lines readline has returned to the UI thread, in order
    polled,            \* what the last call of readline returned ("None" = None)
    \* --- the scrcpy process of the first MainContentAreaWidget ---
    scrcpy_process,    \* MainContentAreaWidget.scrcpy_process (None = 0, else the run's number)
    runs,              \* number of scrcpy processes spawned so far
    running,           \* the runs whose process is alive (poll() is None)
    topLevel,          \* the runs whose window is among the top-level windows
    scrcpy_hwnd,       \* MainContentAreaWidget.scrcpy_hwnd (None = 0, else the window's run)
    scrcpy_container_widget, \* the container (None = 0, else the run whose window it wraps)
    output_timer_active,     \* scrcpy_output_timer.isActive()
    find_callbacks,    \* pending QTimer.singleShot(.., find_and_embed_scrcpy): for each
                       \* chain of retries, the run whose start scheduled it
    \* --- OverlayWindow of scrcpy.py in edit mode, holding one circle ---
    center_coords,     \* DRAWING_PRIMITIVES[id]['center_coords'] of the circle
    dimensions,        \* DRAWING_PRIMITIVES[id]['dimensions']: its radius
    start_point,       \* OverlayWindow.start_point (<<>> = None)
    primitive_being_moved, \* OverlayWindow.primitive_being_moved
    selected_primitive, \* OverlayWindow.selected_primitive_id is the circle's id
    \* --- SettingsDialog ---
    tabs,              \* tab texts of SettingsDialog.tab_widget, <<>> while no dialog is open
    current_tab        \* tab_widget.currentIndex(), -1 without tabs

geomVars == <<containerPos, containerSize, hasContainer, currentPage, isMaximized,
              pendingResize, deferred, overlayGeom, overlayVisible>>
editVars == <<keymaps, edit_mode_active, dragging_keymap, creating_keymap,
              drag_start_pos_local, keymap_original_pixel_pos,
              selected_keymap_for_combo_edit, pending_modifier_key, emitted>>
cmdVars == <<scrcpy_display_id, spawned, uncaught>>
fileVars == <<keymap_file, saveOutcome, diskWritable>>
procVars == <<scrcpy_process, runs, running, topLevel, scrcpy_hwnd, scrcpy_container_widget,
              output_timer_active, find_callbacks>>
primVars == <<center_coords, dimensions, start_point, primitive_being_moved,
              selected_primitive>>
tabVars == <<tabs, current_tab>>
readerVars == <<scrcpy_stdout_reader, written, stdout_pipe, stdout_eof, reader_line,
                reader_queue, returned, polled, procVars, primVars, tabVars>>
vars == <<geomVars, app_edit_mode, lastEvent, lastKey, inputEvents, editVars, cmdVars, fileVars,
          readerVars>>

-----------------------------------------------------------------------------
(* Bounds of the model *)

\* number of MainContentAreaWidget pages in the stacked widget
NumPages == 2
\* cap on pending zero-delay callbacks
MaxDeferred == 2

Pages == 1..NumPages

(* Program constants *)

\* SCRCPY_ASPECT_RATIO = 16.0 / 9.0
AspectNum == 16
AspectDen == 9
SCRCPY_NATIVE_WIDTH == 1920
SCRCPY_NATIVE_HEIGHT == 1080
\* scrcpy_container_widget.setMinimumSize(100, 100)
ContainerMinSize == 100

-----------------------------------------------------------------------------
(* Geometry resolver: MyQtApp.update_global_overlay_geometry *)

\* the rectangle computed from the container's global position and size
ResolveRectMutSwap(pos, size) ==
    LET available_width == size[1]
        available_height == size[2]
        target_height_by_width == (available_width * AspectDen) \div AspectNum
        target_width_by_height == (available_height * AspectNum) \div AspectDen
        fitsByWidth == target_height_by_width > available_height
        w == IF fitsByWidth THEN available_width ELSE target_width_by_height
        h == IF fitsByWidth THEN target_height_by_width ELSE available_height
    IN [x |-> pos[1] + ((available_width - w) \div 2),
        y |-> pos[2] + ((available_height - h) \div 2),
        w |-> w, h |-> h]

ResolveRectMutNoCenter(pos, size) ==
    LET available_width == size[1]
        available_height == size[2]
        target_height_by_width == (available_width * AspectDen) \div AspectNum
        target_width_by_height == (available_height * AspectNum) \div AspectDen
        fitsByWidth == target_height_by_width <= available_height
        w == IF fitsByWidth THEN available_width ELSE target_width_by_height
        h == IF fitsByWidth THEN target_height_by_width ELSE available_height
    IN [x |-> pos[1] + (available_width - w), y |-> pos[2] + (available_height - h),
        w |-> w, h |-> h]

ResolveRect(pos, size) ==
    LET available_width == size[1]
        available_height == size[2]
        target_width_by_width == available_width
        target_height_by_width == (available_width * AspectDen) \div AspectNum
        target_height_by_height == available_height
        target_width_by_height == (available_height * AspectNum) \div AspectDen
        fitsByWidth == target_height_by_width <= available_height
        active_display_width ==
            IF fitsByWidth THEN target_width_by_width ELSE target_width_by_height
        active_display_height ==
            IF fitsByWidth THEN target_height_by_width ELSE target_height_by_height
        offset_x == (available_width - active_display_width) \div 2
        offset_y == (available_height - active_display_height) \div 2
    IN [x |-> pos[1] + offset_x, y |-> pos[2] + offset_y,
        w |-> active_display_width, h |-> active_display_height]

\* the overlay after update_global_overlay_geometry: [geom, visible]
UpdatedOverlayMutNoHide(page, hc, pos, size, oldGeom) ==
    [geom |-> IF hc[page] THEN ResolveRect(pos, size) ELSE oldGeom, visible |-> TRUE]

UpdatedOverlayMutAccumulate(page, hc, pos, size, oldGeom) ==
    IF hc[page]
    THEN [geom |-> [ResolveRect(pos, size) EXCEPT !.x = oldGeom.x + (@ - pos[1]),
                                                  !.y = oldGeom.y + (@ - pos[2])],
          visible |-> TRUE]
    ELSE [geom |-> oldGeom, visible |-> FALSE]

UpdatedOverlay(page, hc, pos, size, oldGeom) ==
    IF hc[page]
    THEN [geom |-> ResolveRect(pos, size), visible |-> TRUE]
    ELSE [geom |-> oldGeom, visible |-> FALSE]

\* update_global_overlay_geometry run on the state after the handler's own changes
UpdateGlobalOverlayGeometry(page, hc, pos, size) ==
    LET u == UpdatedOverlay(page, hc, pos, size, overlayGeom)
    IN /\ overlayGeom' = u.geom
       /\ overlayVisible' = u.visible

-----------------------------------------------------------------------------
(* Environment values *)

\* sizes the layout gives the embedded container (never below its minimum size)
Sizes == {<<1600, 900>>, <<1600, 1000>>, <<ContainerMinSize, ContainerMinSize>>}
\* global positions of the container's top-left corner
Positions == {<<60, 0>>, <<160, 130>>}

\* Python None for object references (Keymap identities count from 1)
None == 0

\* exact rationals for normalized floats
RECURSIVE Gcd(_, _)
Gcd(a, b) == IF b = 0 THEN a ELSE Gcd(b, a % b)
Abs(a) == IF a < 0 THEN -a ELSE a
\* n / d with d > 0, reduced
Rat(n, d) == LET g == Gcd(Abs(n), d) IN [n |-> n \div g, d |-> d \div g]
RatAdd(a, b) == Rat(a.n * b.d + b.n * a.d, a.d * b.d)
RatMul(a, k) == Rat(a.n * k, a.d)
RatLe(a, b) == a.n * b.d <= b.n * a.d
RatLt(a, b) == a.n * b.d < b.n * a.d
\* Python int(): truncation toward zero
IntOf(a) == IF a.n >= 0 THEN a.n \div a.d ELSE -((-a.n) \div a.d)

\* Keymap(normalized_size, keycombo, normalized_position, type="circle")
Keymap(id, normalized_size, keycombo, normalized_position) ==
    [id |-> id, normalized_size |-> normalized_size, keycombo |-> keycombo,
     normalized_position |-> normalized_position, type |-> "circle"]

\* the list load_keymaps_from_local_json builds when keymaps.json does not exist
DefaultKeymaps ==
    << Keymap(1, <<Rat(100, SCRCPY_NATIVE_WIDTH), Rat(100, SCRCPY_NATIVE_HEIGHT)>>,
              <<"Key_Shift", "Key_A">>,
              <<Rat(50, SCRCPY_NATIVE_WIDTH), Rat(50, SCRCPY_NATIVE_HEIGHT)>>),
       Keymap(2, <<Rat(100, SCRCPY_NATIVE_WIDTH), Rat(100, SCRCPY_NATIVE_HEIGHT)>>,
              <<"Key_A">>,
              <<Rat(400, SCRCPY_NATIVE_WIDTH), Rat(300, SCRCPY_NATIVE_HEIGHT)>>) >>

\* a keymaps.json written by earlier sessions: a keymap bound to Escape, the
\* keymap of size (0.05, 0.05) at (0.5, 0.5) bound to A, and a second one bound
\* to A
ScenarioKeymaps ==
    << Keymap(1, <<Rat(1, 20), Rat(1, 20)>>, <<"Key_Escape">>, <<Rat(1, 10), Rat(3, 4)>>),
       Keymap(2, <<Rat(1, 20), Rat(1, 20)>>, <<"Key_A">>, <<Rat(1, 2), Rat(1, 2)>>),
       Keymap(3, <<Rat(1, 20), Rat(1, 20)>>, <<"Key_A">>, <<Rat(1, 4), Rat(1, 4)>>) >>

NoEmission == [fired |-> FALSE, payload |-> <<>>]
Emission(list) == [fired |-> TRUE, payload |-> list]

\* Keymap.to_dict: the object's identity is not part of the dictionary
ToDict(keymap) ==
    [normalized_size |-> keymap.normalized_size, keycombo |-> keymap.keycombo,
     normalized_position |-> keymap.normalized_position, type |-> keymap.type]

\* Keymap.from_dict: a new object, here of identity id
FromDict(id, data) ==
    [Keymap(id, data.normalized_size, data.keycombo, data.normalized_position)
        EXCEPT !.type = data.type]

\* keymaps.json: absent, holding the JSON array data, or present but not decodable
NoFile == [exists |-> FALSE, valid |-> FALSE, data |-> <<>>]
FileWith(data) == [exists |-> TRUE, valid |-> TRUE, data |-> data]
BrokenFile == [exists |-> TRUE, valid |-> FALSE, data |-> <<>>]

WriteKeymapFileMutGiveUp(keymaps_list) ==
    IF diskWritable /\ saveOutcome # "error"
    THEN /\ keymap_file' = FileWith([i \in DOMAIN keymaps_list |-> ToDict(keymaps_list[i])])
         /\ saveOutcome' = "saved"
    ELSE /\ keymap_file' = keymap_file
         /\ saveOutcome' = "error"

\* the try block of save_keymaps_to_local_json with its except clause: open and
\* json.dump complete, or open() raises and the file is as before, or the write
\* raises after open(.., 'w') has truncated the file; the exception is caught
WriteKeymapFile(keymaps_list) ==
    IF diskWritable
    THEN /\ keymap_file' = FileWith([i \in DOMAIN keymaps_list |-> ToDict(keymaps_list[i])])
         /\ saveOutcome' = "saved"
    ELSE /\ keymap_file' \in {keymap_file, BrokenFile}
         /\ saveOutcome' = "error"

SaveKeymapsToLocalJsonMutDropLast(keymaps_list) ==
    /\ keymap_file' = FileWith([i \in 1..(Len(keymaps_list) - 1) |-> ToDict(keymaps_list[i])])
    /\ saveOutcome' = "saved"
    /\ UNCHANGED diskWritable

\* MyQtApp.save_keymaps_to_local_json inside try/except: json.dump completes, or
\* open() raises and the file is as before, or the write raises after open(.., 'w')
\* has truncated the file
SaveKeymapsToLocalJson(keymaps_list) ==
    /\ UNCHANGED diskWritable
    /\ WriteKeymapFile(keymaps_list)

EmitMutStale(list) ==
    /\ emitted' = Emission(keymaps)
    /\ SaveKeymapsToLocalJson(list)

\* keymaps_changed.emit(list) with save_keymaps_to_local_json connected to it
Emit(list) ==
    /\ emitted' = Emission(list)
    /\ SaveKeymapsToLocalJson(list)

NoEmitMutSave ==
    /\ emitted' = Emission(keymaps)
    /\ SaveKeymapsToLocalJson(keymaps)

\* a handler that returns without emitting keymaps_changed
NoEmit ==
    /\ emitted' = NoEmission
    /\ saveOutcome' = "none"
    /\ UNCHANGED <<keymap_file, diskWritable>>

-----------------------------------------------------------------------------
(* OverlayWidget.set_edit_mode *)

\* the edit-session fields after set_edit_mode(active)
SetEditMode(active) ==
    /\ edit_mode_active' = active
    /\ IF ~active
       THEN /\ dragging_keymap' = None
            /\ creating_keymap' = FALSE
            /\ selected_keymap_for_combo_edit' = None
            /\ pending_modifier_key' = "None"
            /\ Emit(keymaps)
       ELSE /\ UNCHANGED <<dragging_keymap, creating_keymap,
                           selected_keymap_for_combo_edit, pending_modifier_key>>
            /\ NoEmit
    /\ UNCHANGED <<keymaps, drag_start_pos_local, keymap_original_pixel_pos>>

editQuiet == /\ NoEmit
             /\ UNCHANGED <<keymaps, edit_mode_active, dragging_keymap, creating_keymap,
                            drag_start_pos_local, keymap_original_pixel_pos,
                            selected_keymap_for_combo_edit, pending_modifier_key>>

-----------------------------------------------------------------------------
(* MyQtApp geometry handlers *)

\* MyQtApp.resizeEvent: the window (and with it the container) has a new size
\* (a user resize, or the resize owed after a maximize/restore);
\* the overlay update is deferred with QTimer.singleShot(0, ...)
ResizeEventMutNoDefer(s) ==
    /\ s # containerSize
    /\ deferred < MaxDeferred
    /\ containerSize' = s
    /\ pendingResize' = FALSE
    /\ UNCHANGED readerVars
    /\ lastEvent' = "resizeEvent"
    /\ editQuiet
    /\ lastKey' = "None"
    /\ UNCHANGED <<deferred, containerPos, hasContainer, currentPage, isMaximized,
                   overlayGeom, overlayVisible, app_edit_mode, cmdVars, inputEvents>>

ResizeEvent(s) ==
    /\ s # containerSize
    /\ deferred < MaxDeferred
    /\ containerSize' = s
    /\ pendingResize' = FALSE
    /\ deferred' = deferred + 1
    /\ UNCHANGED readerVars
    /\ lastEvent' = "resizeEvent"
    /\ editQuiet
    /\ lastKey' = "None"
    /\ UNCHANGED <<containerPos, hasContainer, currentPage, isMaximized,
                   overlayGeom, overlayVisible, app_edit_mode, cmdVars, inputEvents>>

\* the zero-delay callback scheduled by resizeEvent / on_scrcpy_container_ready
DeferredUpdate ==
    /\ deferred > 0
    /\ deferred' = deferred - 1
    /\ UpdateGlobalOverlayGeometry(currentPage, hasContainer, containerPos, containerSize)
    /\ UNCHANGED readerVars
    /\ lastEvent' = "deferredUpdate"
    /\ editQuiet
    /\ lastKey' = "None"
    /\ UNCHANGED <<containerPos, containerSize, hasContainer, currentPage, isMaximized,
                   pendingResize, app_edit_mode, cmdVars, inputEvents>>

\* MyQtApp.moveEvent
MoveEvent(p) ==
    /\ p # containerPos
    /\ containerPos' = p
    /\ UpdateGlobalOverlayGeometry(currentPage, hasContainer, p, containerSize)
    /\ UNCHANGED readerVars
    /\ lastEvent' = "moveEvent"
    /\ editQuiet
    /\ lastKey' = "None"
    /\ UNCHANGED <<containerSize, hasContainer, currentPage, isMaximized,
                   pendingResize, deferred, app_edit_mode, cmdVars, inputEvents>>

\* MyQtApp.toggle_maximize_restore: showNormal()/showMaximized(), then the update.
\* The window system applies the new size either inside the call (its resizeEvent
\* runs before the update) or later (the resizeEvent is still owed).
ToggleMaximizeRestore ==
    /\ isMaximized' = ~isMaximized
    /\ \/ /\ deferred < MaxDeferred
          /\ \E s \in Sizes \ {containerSize} :
                /\ containerSize' = s
                /\ UpdateGlobalOverlayGeometry(currentPage, hasContainer, containerPos, s)
          /\ deferred' = deferred + 1
          /\ pendingResize' = FALSE
       \/ /\ pendingResize' = TRUE
          /\ UpdateGlobalOverlayGeometry(currentPage, hasContainer, containerPos,
                                         containerSize)
          /\ UNCHANGED <<containerSize, deferred>>
    /\ UNCHANGED readerVars
    /\ lastEvent' = "toggle_maximize_restore"
    /\ editQuiet
    /\ lastKey' = "None"
    /\ UNCHANGED <<containerPos, hasContainer, currentPage, app_edit_mode, cmdVars, inputEvents>>

\* MyQtApp._on_stacked_widget_page_changed(index)
OnStackedWidgetPageChanged(index) ==
    /\ index # currentPage
    /\ currentPage' = index
    /\ UpdateGlobalOverlayGeometry(index, hasContainer, containerPos, containerSize)
    /\ UNCHANGED readerVars
    /\ lastEvent' = "page_changed"
    /\ editQuiet
    /\ lastKey' = "None"
    /\ UNCHANGED <<containerPos, containerSize, hasContainer, isMaximized,
                   pendingResize, deferred, app_edit_mode, cmdVars, inputEvents>>

\* MyQtApp.showEvent
ShowEvent ==
    /\ UpdateGlobalOverlayGeometry(currentPage, hasContainer, containerPos, containerSize)
    /\ UNCHANGED readerVars
    /\ lastEvent' = "showEvent"
    /\ editQuiet
    /\ lastKey' = "None"
    /\ UNCHANGED <<containerPos, containerSize, hasContainer, currentPage, isMaximized,
                   pendingResize, deferred, app_edit_mode, cmdVars, inputEvents>>

\* find_and_embed_scrcpy found the window of page p: the container is created and
\* scrcpy_container_ready is emitted; the slot on_scrcpy_container_ready defers
\* the overlay update
OnScrcpyContainerReady(p) ==
    /\ ~hasContainer[p]
    /\ deferred < MaxDeferred
    /\ hasContainer' = [hasContainer EXCEPT ![p] = TRUE]
    /\ deferred' = deferred + 1
    /\ UNCHANGED readerVars
    /\ lastEvent' = "on_scrcpy_container_ready"
    /\ editQuiet
    /\ lastKey' = "None"
    /\ UNCHANGED <<containerPos, containerSize, currentPage, isMaximized, pendingResize,
                   overlayGeom, overlayVisible, app_edit_mode, cmdVars, inputEvents>>

\* MyQtApp.toggle_edit_mode
ToggleEditModeMutNoUpdate ==
    /\ app_edit_mode' = ~app_edit_mode
    /\ SetEditMode(~app_edit_mode)
    /\ UNCHANGED readerVars
    /\ lastEvent' = "toggle_edit_mode"
    /\ lastKey' = "None"
    /\ UNCHANGED <<overlayGeom, overlayVisible, containerPos, containerSize, hasContainer,
                   currentPage, isMaximized, pendingResize, deferred, cmdVars, inputEvents>>

ToggleEditMode ==
    /\ app_edit_mode' = ~app_edit_mode
    /\ SetEditMode(~app_edit_mode)
    /\ UpdateGlobalOverlayGeometry(currentPage, hasContainer, containerPos, containerSize)
    /\ UNCHANGED readerVars
    /\ lastEvent' = "toggle_edit_mode"
    /\ lastKey' = "None"
    /\ UNCHANGED <<containerPos, containerSize, hasContainer, currentPage, isMaximized,
                   pendingResize, deferred, cmdVars, inputEvents>>

-----------------------------------------------------------------------------
(* OverlayWidget pointer and key handlers (edit state machine) *)

\* cap on the length of the keymap list
MaxKeymaps == 3

\* cap on the pointer and key events delivered to the overlay in one run
MaxInputEvents == 4

\* event.pos() values delivered to the overlay (widget-local pixels)
Points == {<<100, 100>>, <<102, 101>>, <<160, 140>>, <<120, 40>>}
Buttons == {"Left", "Right"}
ModifierKeys == {"Key_Shift", "Key_Control", "Key_Alt", "Key_Meta", "Key_Super_L",
                 "Key_Super_R"}
\* event.key() values delivered to the application
Keys == {"Key_A", "Key_Shift", "Key_Delete", "Key_Escape"}

\* self.width(), self.height() of the overlay
Width == overlayGeom.w
Height == overlayGeom.h

SetMin(S) == CHOOSE x \in S : \A y \in S : x <= y
Ids(list) == {list[i].id : i \in DOMAIN list}
\* the Keymap object with identity id (it is an element of the list)
KeymapById(list, id) == list[CHOOSE i \in DOMAIN list : list[i].id = id]
\* identity of a newly constructed Keymap: the least one no live object has
FreshId(list) == SetMin((1..(Len(list) + 1)) \ Ids(list))
ListRemoveMutTail(list, id) == SelectSeq(list, LAMBDA k : k.id < id)

\* list.remove(obj): the first element that is obj is removed
ListRemove(list, id) == SelectSeq(list, LAMBDA k : k.id # id)

\* QRectF(x, y, w, h).contains(p) for rational x, y, w, h and an integer point p
RectFContains(x, y, w, h, p) ==
    LET l1 == IF w.n < 0 THEN RatAdd(x, w) ELSE x
        r1 == IF w.n < 0 THEN x ELSE RatAdd(x, w)
        t1 == IF h.n < 0 THEN RatAdd(y, h) ELSE y
        b1 == IF h.n < 0 THEN y ELSE RatAdd(y, h)
        px == Rat(p[1], 1)
        py == Rat(p[2], 1)
    IN /\ l1 # r1 /\ t1 # b1
       /\ RatLe(l1, px) /\ RatLe(px, r1)
       /\ RatLe(t1, py) /\ RatLe(py, b1)

\* int(v) for the double v computed as normalized * pixels. The exact product is
\* r; when r is a nonzero integer the double may lie just below it in magnitude
\* (e.g. (57 / 1600) * 1600), and int() then yields the neighbour towards zero.
\* Which integers are affected depends on the operands: both outcomes are admitted.
IntOfDouble(r) ==
    {IntOf(r)} \cup (IF r.d = 1 /\ r.n # 0
                     THEN {IF r.n > 0 THEN r.n - 1 ELSE r.n + 1}
                     ELSE {})

\* pixel rectangle of a keymap on the overlay
PixelX(km) == RatMul(km.normalized_position[1], Width)
PixelY(km) == RatMul(km.normalized_position[2], Height)
PixelW(km) == RatMul(km.normalized_size[1], Width)
PixelH(km) == RatMul(km.normalized_size[2], Height)
KeymapRectContains(km, p) == RectFContains(PixelX(km), PixelY(km), PixelW(km), PixelH(km), p)

\* the 25 px delete button centred on the top-right corner of the keymap rect
XButtonContains(km, p) ==
    LET right == RatAdd(PixelX(km), PixelW(km))
        top == PixelY(km)
    IN RectFContains(RatAdd(right, Rat(-25, 2)), RatAdd(top, Rat(-25, 2)),
                     Rat(25, 1), Rat(25, 1), p)

\* the point lies on the widget (where a press can land)
OnWidget(p) == p[1] >= 0 /\ p[1] < Width /\ p[2] >= 0 /\ p[2] < Height

envQuiet ==
    /\ lastKey' = "None"
    /\ inputEvents < MaxInputEvents
    /\ inputEvents' = inputEvents + 1
    /\ UNCHANGED <<geomVars, app_edit_mode, cmdVars>>

\* the left press at p takes the selection away without deleting the selected
\* keymap: a keymap is selected and p is not on its delete button
PressDeselects(p, button) ==
    /\ edit_mode_active
    /\ button = "Left"
    /\ selected_keymap_for_combo_edit # None
    /\ ~XButtonContains(KeymapById(keymaps, selected_keymap_for_combo_edit), p)

FirstHitMutTopmost(hits) == CHOOSE x \in hits : \A y \in hits : x >= y

\* the loop over self.keymaps breaks at the first keymap whose rectangle contains
\* the point: of the indices that contain it, the least
FirstHit(hits) == SetMin(hits)

\* OverlayWidget.mousePressEvent; lastEvent tells a press that took the
\* selection away from the others
MousePressEvent(p, button) ==
    /\ overlayVisible /\ OnWidget(p)
    /\ UNCHANGED readerVars
    /\ lastEvent' = IF PressDeselects(p, button) THEN "mousePressEvent deselecting"
                    ELSE "mousePressEvent"
    /\ envQuiet
    /\ UNCHANGED <<edit_mode_active, pending_modifier_key>>
    /\ IF ~edit_mode_active \/ button # "Left"
       THEN /\ NoEmit
            /\ UNCHANGED <<keymaps, dragging_keymap, creating_keymap, drag_start_pos_local,
                           keymap_original_pixel_pos, selected_keymap_for_combo_edit>>
       ELSE
         /\ drag_start_pos_local' = p
         /\ IF /\ selected_keymap_for_combo_edit # None
               /\ XButtonContains(KeymapById(keymaps, selected_keymap_for_combo_edit), p)
            THEN LET rest == ListRemove(keymaps, selected_keymap_for_combo_edit)
                 IN /\ keymaps' = rest
                    /\ selected_keymap_for_combo_edit' = None
                    /\ Emit(rest)
                    /\ UNCHANGED <<dragging_keymap, creating_keymap,
                                   keymap_original_pixel_pos>>
            ELSE
              LET hits == {i \in DOMAIN keymaps : KeymapRectContains(keymaps[i], p)}
              IN /\ selected_keymap_for_combo_edit' = None
                 /\ NoEmit
                 /\ IF hits # {}
                    THEN LET keymap == keymaps[FirstHit(hits)]
                         IN /\ dragging_keymap' = keymap.id
                            /\ \E x \in IntOfDouble(PixelX(keymap)),
                                  y \in IntOfDouble(PixelY(keymap)) :
                                   keymap_original_pixel_pos' = <<x, y>>
                            /\ UNCHANGED <<keymaps, creating_keymap>>
                    ELSE LET new_keymap ==
                                 Keymap(FreshId(keymaps), <<Rat(1, 100), Rat(1, 100)>>, <<>>,
                                        <<Rat(p[1], Width), Rat(p[2], Height)>>)
                         IN /\ Len(keymaps) < MaxKeymaps
                            /\ creating_keymap' = TRUE
                            /\ keymaps' = Append(keymaps, new_keymap)
                            /\ dragging_keymap' = new_keymap.id
                            /\ UNCHANGED keymap_original_pixel_pos

\* the keymap list after mouseMoveEvent at p
MovedKeymaps(p) ==
    LET idx == CHOOSE i \in DOMAIN keymaps : keymaps[i].id = dragging_keymap
    IN IF creating_keymap
       THEN LET dx == p[1] - drag_start_pos_local[1]
                dy == p[2] - drag_start_pos_local[2]
                side_length == IF Abs(dx) < Abs(dy) THEN Abs(dx) ELSE Abs(dy)
                current_pixel_x == IF dx < 0 THEN drag_start_pos_local[1] - side_length
                                   ELSE drag_start_pos_local[1]
                current_pixel_y == IF dy < 0 THEN drag_start_pos_local[2] - side_length
                                   ELSE drag_start_pos_local[2]
                sw == Rat(side_length, Width)
                sh == Rat(side_length, Height)
                min_norm_size_w == Rat(10, Width)
                min_norm_size_h == Rat(10, Height)
            IN [keymaps EXCEPT
                  ![idx].normalized_position =
                      <<Rat(current_pixel_x, Width), Rat(current_pixel_y, Height)>>,
                  ![idx].normalized_size =
                      <<IF RatLt(sw, min_norm_size_w) THEN min_norm_size_w ELSE sw,
                        IF RatLt(sh, min_norm_size_h) THEN min_norm_size_h ELSE sh>>]
       ELSE LET new_pixel_x == keymap_original_pixel_pos[1] + (p[1] - drag_start_pos_local[1])
                new_pixel_y == keymap_original_pixel_pos[2] + (p[2] - drag_start_pos_local[2])
            IN [keymaps EXCEPT
                  ![idx].normalized_position =
                      <<Rat(new_pixel_x, Width), Rat(new_pixel_y, Height)>>]

\* OverlayWidget.mouseMoveEvent
MouseMoveEvent(p) ==
    /\ overlayVisible
    /\ UNCHANGED readerVars
    /\ lastEvent' = "mouseMoveEvent"
    /\ envQuiet
    /\ NoEmit
    /\ UNCHANGED <<edit_mode_active, dragging_keymap, creating_keymap, drag_start_pos_local,
                   keymap_original_pixel_pos, selected_keymap_for_combo_edit,
                   pending_modifier_key>>
    /\ IF edit_mode_active /\ dragging_keymap # None
       THEN keymaps' = MovedKeymaps(p)
       ELSE UNCHANGED keymaps

DefaultKeymapAtMutCorner(id, release_pos) ==
    Keymap(id, <<Rat(100, Width), Rat(100, Height)>>, <<>>,
           <<Rat(release_pos[1], Width), Rat(release_pos[2], Height)>>)

\* the keymap that mouseReleaseEvent creates for a click released at release_pos
DefaultKeymapAt(id, release_pos) ==
    LET default_pixel_diameter == 100
    IN Keymap(id,
              <<Rat(default_pixel_diameter, Width), Rat(default_pixel_diameter, Height)>>,
              <<>>,
              <<Rat(release_pos[1] - default_pixel_diameter \div 2, Width),
                Rat(release_pos[2] - default_pixel_diameter \div 2, Height)>>)

ReleaseSelectionMutClickOnly(isClick, new_id) ==
    IF isClick THEN (IF creating_keymap THEN new_id ELSE dragging_keymap)
    ELSE selected_keymap_for_combo_edit

\* the selection that mouseReleaseEvent leaves: the keymap created by the click,
\* the dragged-out keymap, the clicked keymap, or the selection as it was
ReleaseSelection(isClick, new_id) ==
    IF creating_keymap
    THEN (IF isClick THEN new_id ELSE dragging_keymap)
    ELSE (IF isClick THEN dragging_keymap ELSE selected_keymap_for_combo_edit)

\* OverlayWidget.mouseReleaseEvent
MouseReleaseEvent(p, button) ==
    /\ overlayVisible
    /\ UNCHANGED readerVars
    /\ lastEvent' = "mouseReleaseEvent"
    /\ envQuiet
    /\ UNCHANGED <<edit_mode_active, drag_start_pos_local, keymap_original_pixel_pos,
                   pending_modifier_key>>
    /\ IF ~edit_mode_active \/ button # "Left" \/ dragging_keymap = None
       THEN /\ NoEmit
            /\ UNCHANGED <<keymaps, dragging_keymap, creating_keymap,
                           selected_keymap_for_combo_edit>>
       ELSE
         LET dx == p[1] - drag_start_pos_local[1]
             dy == p[2] - drag_start_pos_local[2]
             isClick == dx * dx + dy * dy < 5 * 5
             rest == ListRemove(keymaps, dragging_keymap)
             new_keymap == DefaultKeymapAt(FreshId(rest), p)
             newList == IF creating_keymap /\ isClick THEN Append(rest, new_keymap)
                        ELSE keymaps
         IN /\ keymaps' = newList
            /\ selected_keymap_for_combo_edit' = ReleaseSelection(isClick, new_keymap.id)
            /\ dragging_keymap' = None
            /\ creating_keymap' = FALSE
            /\ Emit(newList)

NewComboMutNoModifier(key) == <<key>>

\* the combo that keyPressEvent builds for a non-modifier key: the pending
\* modifier, if there is one, then the key
NewCombo(key) ==
    IF pending_modifier_key # "None" THEN <<pending_modifier_key, key>> ELSE <<key>>

\* OverlayWidget.keyPressEvent
OverlayKeyPressEvent(key) ==
    /\ UNCHANGED <<edit_mode_active, dragging_keymap, creating_keymap, drag_start_pos_local,
                   keymap_original_pixel_pos>>
    /\ IF ~edit_mode_active \/ selected_keymap_for_combo_edit = None
       THEN /\ NoEmit
            /\ UNCHANGED <<keymaps, selected_keymap_for_combo_edit, pending_modifier_key>>
       ELSE IF key = "Key_Delete"
       THEN LET rest == ListRemove(keymaps, selected_keymap_for_combo_edit)
            IN /\ keymaps' = rest
               /\ selected_keymap_for_combo_edit' = None
               /\ Emit(rest)
               /\ UNCHANGED pending_modifier_key
       ELSE IF key \in ModifierKeys
       THEN /\ pending_modifier_key' = key
            /\ NoEmit
            /\ UNCHANGED <<keymaps, selected_keymap_for_combo_edit>>
       ELSE LET new_combo == NewCombo(key)
                idx == CHOOSE i \in DOMAIN keymaps :
                           keymaps[i].id = selected_keymap_for_combo_edit
                newList == [keymaps EXCEPT ![idx].keycombo = new_combo]
            IN /\ keymaps' = newList
               /\ pending_modifier_key' = "None"
               /\ selected_keymap_for_combo_edit' = None
               /\ Emit(newList)

-----------------------------------------------------------------------------
(* Command dispatch: MyQtApp.keyPressEvent, send_scrcpy_tap, send_adb_keyevent *)

\* cap on the number of commands handed to subprocess.Popen
MaxCommands == 3

\* display ids scrcpy may report, as written into the command line
DisplayIds == {"2", "7"}

RatHalf(a) == Rat(a.n, a.d * 2)

\* center of the keymap in the device's native resolution; for the keymaps the
\* play-mode specification starts with, the double sum is an exact integer
\* (100, 100 and 450, 350; 240, 837 and 1008, 567 and 528, 297)
CenterXNative(keymap) ==
    IntOf(RatAdd(RatMul(keymap.normalized_position[1], SCRCPY_NATIVE_WIDTH),
                 RatHalf(RatMul(keymap.normalized_size[1], SCRCPY_NATIVE_WIDTH))))

CenterYNativeMutTopEdge(keymap) ==
    IntOf(RatMul(keymap.normalized_position[2], SCRCPY_NATIVE_HEIGHT))

CenterYNative(keymap) ==
    IntOf(RatAdd(RatMul(keymap.normalized_position[2], SCRCPY_NATIVE_HEIGHT),
                 RatHalf(RatMul(keymap.normalized_size[2], SCRCPY_NATIVE_HEIGHT))))

TapCommand(display, x, y) == [kind |-> "tap", display |-> display, x |-> x, y |-> y]
KeyeventCommand(keycode) == [kind |-> keycode, display |-> "", x |-> 0, y |-> 0]

\* subprocess.Popen(adb_cmd, ...) inside try/except: ok = the call returned,
\* ~ok = it raised and the exception was caught and printed
PopenMutGiveUp(cmd, ok) ==
    /\ spawned' = IF spawned # <<>> /\ ~spawned[Len(spawned)].ok
                  THEN spawned ELSE Append(spawned, [cmd |-> cmd, ok |-> ok])
    /\ UNCHANGED uncaught

Popen(cmd, ok) ==
    /\ spawned' = Append(spawned, [cmd |-> cmd, ok |-> ok])
    /\ UNCHANGED uncaught

SendScrcpyTapMutNoGuard(x, y) ==
    \E ok \in BOOLEAN : Popen(TapCommand(scrcpy_display_id[currentPage], x, y), ok)

\* MyQtApp.send_scrcpy_tap(x, y)
SendScrcpyTap(x, y) ==
    IF scrcpy_display_id[currentPage] # "None"
    THEN \E ok \in BOOLEAN : Popen(TapCommand(scrcpy_display_id[currentPage], x, y), ok)
    ELSE UNCHANGED <<spawned, uncaught>>

SendAdbKeyeventMutMatch(keycode) ==
    IF \E i \in DOMAIN keymaps : keymaps[i].keycombo = <<"Key_Escape">>
    THEN LET keymap == keymaps[SetMin({i \in DOMAIN keymaps :
                                         keymaps[i].keycombo = <<"Key_Escape">>})]
         IN SendScrcpyTap(CenterXNative(keymap), CenterYNative(keymap))
    ELSE IF scrcpy_display_id[currentPage] # "None"
    THEN \E ok \in BOOLEAN : Popen(KeyeventCommand(keycode), ok)
    ELSE UNCHANGED <<spawned, uncaught>>

\* MyQtApp.send_adb_keyevent(keycode)
SendAdbKeyevent(keycode) ==
    IF scrcpy_display_id[currentPage] # "None"
    THEN \E ok \in BOOLEAN : Popen(KeyeventCommand(keycode), ok)
    ELSE UNCHANGED <<spawned, uncaught>>

PlayMatchesMutCopy(key) ==
    {i \in DOMAIN keymaps \cap DOMAIN DefaultKeymaps : DefaultKeymaps[i].keycombo = <<key>>}

\* positions of the keymaps a play-mode press of key activates
PlayMatches(key) ==
    {i \in DOMAIN keymaps : Len(keymaps[i].keycombo) = 1 /\ keymaps[i].keycombo[1] = key}

\* keymap has the position and size of one of the keymaps the play-mode
\* specification starts with
StartsPlayMode(keymap) ==
    \E list \in {DefaultKeymaps, ScenarioKeymaps} : \E i \in DOMAIN list :
        /\ list[i].normalized_position = keymap.normalized_position
        /\ list[i].normalized_size = keymap.normalized_size

\* the (center_x_native, center_y_native) that keyPressEvent may compute for
\* keymap: the exact one for the keymaps play mode starts with, whose double
\* arithmetic was evaluated; for a keymap made in an edit session the double
\* sum may lie just below an exact integer, and int() then yields its neighbour
NativeCenters(keymap) ==
    IF StartsPlayMode(keymap)
    THEN {<<CenterXNative(keymap), CenterYNative(keymap)>>}
    ELSE IntOfDouble(RatAdd(RatMul(keymap.normalized_position[1], SCRCPY_NATIVE_WIDTH),
                            RatHalf(RatMul(keymap.normalized_size[1],
                                           SCRCPY_NATIVE_WIDTH))))
         \X IntOfDouble(RatAdd(RatMul(keymap.normalized_position[2],
                                      SCRCPY_NATIVE_HEIGHT),
                               RatHalf(RatMul(keymap.normalized_size[2],
                                              SCRCPY_NATIVE_HEIGHT))))

\* MyQtApp.keyPressEvent; lastEvent tells a press that was passed on to
\* super().keyPressEvent from one that was accepted
AppKeyPressEvent(key) ==
    /\ UNCHANGED readerVars
    /\ lastEvent' = IF ~app_edit_mode /\ key # "Key_Escape" /\ PlayMatches(key) = {}
                    THEN "keyPressEvent propagated"
                    ELSE "keyPressEvent"
    /\ lastKey' = key
    /\ UNCHANGED <<geomVars, app_edit_mode, scrcpy_display_id>>
    /\ IF ~app_edit_mode
       THEN /\ Len(spawned) < MaxCommands
            /\ editQuiet
            /\ UNCHANGED inputEvents
            /\ IF key = "Key_Escape"
               THEN SendAdbKeyevent("KEYCODE_BACK")
               ELSE IF PlayMatches(key) # {}
               THEN LET keymap == keymaps[SetMin(PlayMatches(key))]
                    IN \E c \in NativeCenters(keymap) : SendScrcpyTap(c[1], c[2])
               ELSE UNCHANGED <<spawned, uncaught>>
       ELSE /\ inputEvents < MaxInputEvents
            /\ inputEvents' = inputEvents + 1
            /\ OverlayKeyPressEvent(key)
            /\ UNCHANGED <<spawned, uncaught>>

\* MainContentAreaWidget._read_scrcpy_output: a stdout line of page p matched
\* "(id=<digits>)"
ReadScrcpyOutput(p, id) ==
    /\ scrcpy_display_id[p] = "None"
    /\ scrcpy_display_id' = [scrcpy_display_id EXCEPT ![p] = id]
    /\ UNCHANGED readerVars
    /\ lastEvent' = "_read_scrcpy_output"
    /\ editQuiet
    /\ lastKey' = "None"
    /\ UNCHANGED <<geomVars, app_edit_mode, spawned, uncaught, inputEvents>>

-----------------------------------------------------------------------------
(* State after MyQtApp.__init__ *)

\* keymaps.json once load_keymaps_from_local_json has installed list: the file it
\* was read from, or the defaults it wrote because there was none
StartupFile(list) == FileWith([i \in DOMAIN list |-> ToDict(list[i])])

\* Keymap.from_dict(data) returns: data has the four keys it reads (a missing
\* key raises KeyError)
WellFormed(data) ==
    {"normalized_size", "keycombo", "normalized_position", "type"} \subseteq DOMAIN data

\* the list load_keymaps_from_local_json installs for a given keymaps.json: the
\* list comprehension is inside the try, so an exception from json.load or from
\* any from_dict leaves loaded_keymaps the empty list it was initialised to
LoadedKeymaps(file) ==
    IF file.exists
    THEN IF file.valid /\ \A i \in DOMAIN file.data : WellFormed(file.data[i])
         THEN [i \in DOMAIN file.data |-> FromDict(i, file.data[i])]
         ELSE <<>>
    ELSE DefaultKeymaps

\* the window is closed (closeEvent) and the program is started again: __init__
\* with load_keymaps_from_local_json, then the embedding and its deferred update
Restart ==
    /\ keymaps' = LoadedKeymaps(keymap_file)
    /\ IF keymap_file.exists
       THEN UNCHANGED <<keymap_file, diskWritable>> /\ saveOutcome' = "none"
       ELSE SaveKeymapsToLocalJson(DefaultKeymaps)
    /\ emitted' = NoEmission
    /\ edit_mode_active' = FALSE
    /\ app_edit_mode' = FALSE
    /\ dragging_keymap' = None
    /\ creating_keymap' = FALSE
    /\ drag_start_pos_local' = <<0, 0>>
    /\ keymap_original_pixel_pos' = <<0, 0>>
    /\ selected_keymap_for_combo_edit' = None
    /\ pending_modifier_key' = "None"
    /\ currentPage' = 1
    /\ isMaximized' = FALSE
    /\ pendingResize' = FALSE
    /\ deferred' = 0
    /\ overlayGeom' = ResolveRect(containerPos, containerSize)
    /\ overlayVisible' = TRUE
    /\ scrcpy_display_id' = [p \in Pages |-> "None"]
    /\ spawned' = <<>>
    /\ uncaught' = FALSE
    /\ UNCHANGED readerVars
    /\ lastEvent' = "restart"
    /\ lastKey' = "None"
    /\ UNCHANGED <<containerPos, containerSize, hasContainer, inputEvents>>

\* fields set by MyQtApp.__init__ and OverlayWidget.__init__ (keymaps.json absent:
\* load_keymaps_from_local_json installs the two default keymaps)
InitSession ==
    /\ currentPage = 1
    /\ isMaximized = FALSE
    /\ pendingResize = FALSE
    /\ app_edit_mode = FALSE
    /\ lastKey = "None"
    /\ inputEvents = 0
    /\ saveOutcome = "none"
    /\ diskWritable = TRUE
    /\ edit_mode_active = FALSE
    /\ dragging_keymap = None
    /\ creating_keymap = FALSE
    /\ drag_start_pos_local = <<0, 0>>
    /\ keymap_original_pixel_pos = <<0, 0>>
    /\ selected_keymap_for_combo_edit = None
    /\ pending_modifier_key = "None"
    /\ emitted = NoEmission
    /\ scrcpy_display_id = [p \in Pages |-> "None"]
    /\ spawned = <<>>
    /\ uncaught = FALSE
    /\ scrcpy_stdout_reader = "None"
    /\ written = <<>>
    /\ stdout_pipe = <<>>
    /\ stdout_eof = FALSE
    /\ reader_line = "None"
    /\ reader_queue = <<>>
    /\ returned = <<>>
    /\ polled = "None"
    /\ scrcpy_process = None
    /\ runs = 0
    /\ running = {}
    /\ topLevel = {}
    /\ scrcpy_hwnd = None
    /\ scrcpy_container_widget = None
    /\ output_timer_active = FALSE
    /\ find_callbacks = {}
    /\ center_coords = <<0, 0>>
    /\ dimensions = 0
    /\ start_point = <<>>
    /\ primitive_being_moved = FALSE
    /\ selected_primitive = FALSE
    /\ tabs = <<>>
    /\ current_tab = -1

\* right after construction: no page has a container yet, the overlay is hidden
InitApp ==
    /\ InitSession
    /\ keymaps = DefaultKeymaps
    /\ keymap_file = StartupFile(DefaultKeymaps)
    /\ hasContainer = [p \in Pages |-> FALSE]
    /\ deferred = 0
    /\ overlayGeom = [x |-> 0, y |-> 0, w |-> 640, h |-> 480]
    /\ overlayVisible = FALSE
    /\ lastEvent = "init"

\* every page has embedded its window and the deferred update of
\* on_scrcpy_container_ready has run on a container at pos with the given size
InitEmbedded(pos, size) ==
    /\ InitSession
    /\ hasContainer = [p \in Pages |-> TRUE]
    /\ deferred = 0
    /\ containerPos = pos
    /\ containerSize = size
    /\ overlayGeom = ResolveRect(pos, size)
    /\ overlayVisible = TRUE
    /\ lastEvent = "deferredUpdate"

-----------------------------------------------------------------------------
(* Geometry synchronisation: window events against the overlay *)

InitGeom ==
    /\ InitApp
    /\ containerPos \in Positions
    /\ containerSize \in Sizes

NextGeom ==
    \/ \E s \in Sizes : ResizeEvent(s)
    \/ DeferredUpdate
    \/ \E p \in Positions : MoveEvent(p)
    \/ ToggleMaximizeRestore
    \/ \E i \in Pages : OnStackedWidgetPageChanged(i)
    \/ ShowEvent
    \/ \E p \in Pages : OnScrcpyContainerReady(p)
    \/ ToggleEditMode

SpecGeom == InitGeom /\ [][NextGeom]_vars

-----------------------------------------------------------------------------
(* Edit sessions on an embedded 1600x900 container *)

\* what load_keymaps_from_local_json can install: the defaults when keymaps.json
\* is absent, or the empty list when the file holds [] or cannot be decoded
StoredKeymaps == {DefaultKeymaps, <<>>}

InitEdit ==
    /\ InitEmbedded(<<60, 0>>, <<1600, 900>>)
    /\ keymaps \in StoredKeymaps
    /\ keymap_file = StartupFile(keymaps)

NextEdit ==
    \/ ToggleEditMode
    \/ \E p \in Points, b \in Buttons : MousePressEvent(p, b)
    \/ \E p \in Points : MouseMoveEvent(p)
    \/ \E p \in Points, b \in Buttons : MouseReleaseEvent(p, b)
    \/ \E k \in Keys : AppKeyPressEvent(k)

SpecEdit == InitEdit /\ [][NextEdit]_vars

-----------------------------------------------------------------------------
(* Edit sessions on a store whose keymaps overlap *)

\* a stored list in which the second keymap (pixels 100..180 x 30..120 on the
\* 1600 x 900 overlay) lies over a part of the first start-up keymap and under
\* the delete button of the first
OverlappingKeymaps ==
    << DefaultKeymaps[1],
       Keymap(2, <<Rat(1, 20), Rat(1, 10)>>, <<"Key_A">>, <<Rat(1, 16), Rat(1, 30)>>) >>

InitHit ==
    /\ InitEmbedded(<<60, 0>>, <<1600, 900>>)
    /\ keymaps = OverlappingKeymaps
    /\ keymap_file = StartupFile(keymaps)

SpecHit == InitHit /\ [][NextEdit]_vars

-----------------------------------------------------------------------------
(* NonBlockingStreamReader over scrcpy's standard output *)

\* cap on the number of lines scrcpy writes
MaxLines == 3

\* lines scrcpy writes, as stream.readline returns them (with their terminator):
\* an ordinary line, the line that carries the display id, a blank line
Lines == {"INFO: Device\n", "[server] INFO: New display (id=2)\n", "\n"}

\* what readline of the text-mode pipe (universal_newlines=True) returns at end
\* of file, and the sentinel b'' of iter(stream.readline, b'')
EofLine == ""
Sentinel == "b''"

othersQuiet ==
    UNCHANGED <<geomVars, app_edit_mode, lastEvent, lastKey, inputEvents, editVars, cmdVars,
                fileVars, procVars, primVars, tabVars>>

\* NonBlockingStreamReader.__init__ on the stdout of the process start_scrcpy has
\* just spawned: an empty queue and the started daemon thread
NonBlockingStreamReaderInit ==
    /\ scrcpy_stdout_reader = "None"
    /\ scrcpy_stdout_reader' = "reader"
    /\ reader_queue' = <<>>
    /\ reader_line' = "None"
    /\ UNCHANGED <<written, stdout_pipe, stdout_eof, returned, polled>>
    /\ othersQuiet

\* scrcpy writes a line to its stdout
ScrcpyWrites(line) ==
    /\ scrcpy_stdout_reader = "reader"
    /\ ~stdout_eof
    /\ Len(written) < MaxLines
    /\ written' = Append(written, line)
    /\ stdout_pipe' = Append(stdout_pipe, line)
    /\ UNCHANGED <<scrcpy_stdout_reader, stdout_eof, reader_line, reader_queue, returned, polled>>
    /\ othersQuiet

\* scrcpy exits or closes its stdout
ScrcpyCloses ==
    /\ scrcpy_stdout_reader = "reader"
    /\ ~stdout_eof
    /\ stdout_eof' = TRUE
    /\ UNCHANGED <<scrcpy_stdout_reader, written, stdout_pipe, reader_line, reader_queue,
                   returned, polled>>
    /\ othersQuiet

\* reader thread: stream.readline() in iter(stream.readline, b'') returns. It
\* blocks while the pipe is empty and open; at end of file it returns EofLine:
\* were that the sentinel, the loop would end, stream.close() would run and the
\* thread would be over ("closed"); as it is not, the loop body runs with it
PopulateQueueReadline ==
    /\ scrcpy_stdout_reader = "reader"
    /\ reader_line = "None"
    /\ IF stdout_pipe # <<>>
       THEN /\ reader_line' = Head(stdout_pipe)
            /\ stdout_pipe' = Tail(stdout_pipe)
       ELSE /\ stdout_eof
            /\ reader_line' = IF EofLine = Sentinel THEN "closed" ELSE EofLine
            /\ UNCHANGED stdout_pipe
    /\ UNCHANGED <<scrcpy_stdout_reader, written, stdout_eof, reader_queue, returned, polled>>
    /\ othersQuiet

\* reader thread: the loop body `if line: q.put(line)`
PopulateQueuePut ==
    /\ scrcpy_stdout_reader = "reader"
    /\ reader_line \notin {"None", "closed"}
    /\ reader_queue' = IF reader_line # "" THEN Append(reader_queue, reader_line)
                       ELSE reader_queue
    /\ reader_line' = "None"
    /\ UNCHANGED <<scrcpy_stdout_reader, written, stdout_pipe, stdout_eof, returned, polled>>
    /\ othersQuiet

ReadlineMutBlocking ==
    /\ scrcpy_stdout_reader = "reader"
    /\ reader_queue # <<>>
    /\ polled' = Head(reader_queue)
    /\ reader_queue' = Tail(reader_queue)
    /\ returned' = Append(returned, Head(reader_queue))
    /\ UNCHANGED <<scrcpy_stdout_reader, written, stdout_pipe, stdout_eof, reader_line>>
    /\ othersQuiet

\* UI thread: NonBlockingStreamReader.readline, called by _read_scrcpy_output:
\* self._queue.get(block=False), None on queue.Empty
Readline ==
    /\ scrcpy_stdout_reader = "reader"
    /\ IF reader_queue = <<>>
       THEN /\ polled' = "None"
            /\ UNCHANGED <<reader_queue, returned>>
       ELSE /\ polled' = Head(reader_queue)
            /\ reader_queue' = Tail(reader_queue)
            /\ returned' = Append(returned, Head(reader_queue))
    /\ UNCHANGED <<scrcpy_stdout_reader, written, stdout_pipe, stdout_eof, reader_line>>
    /\ othersQuiet

NextReader ==
    \/ NonBlockingStreamReaderInit
    \/ \E line \in Lines : ScrcpyWrites(line)
    \/ ScrcpyCloses
    \/ PopulateQueueReadline
    \/ PopulateQueuePut
    \/ Readline

SpecReader == InitEdit /\ [][NextReader]_vars

\* the reader thread is scheduled again and again, and the application starts
\* scrcpy
SpecReaderFair ==
    /\ SpecReader
    /\ WF_vars(NonBlockingStreamReaderInit)
    /\ WF_vars(PopulateQueueReadline)
    /\ WF_vars(PopulateQueuePut)

-----------------------------------------------------------------------------
(* MainContentAreaWidget: the scrcpy process of the first page and its window *)

\* cap on the number of scrcpy processes spawned
MaxStarts == 3

\* the id of the virtual display that the run's scrcpy creates (--new-display)
\* and prints as "(id=<digits>)": every run gets a display of its own
DisplayIdOfRun(run) == ToString(run + 1)

\* what these handlers leave alone
procQuiet ==
    /\ lastKey' = "None"
    /\ editQuiet
    /\ UNCHANGED <<containerPos, containerSize, currentPage, isMaximized, pendingResize,
                   overlayGeom, overlayVisible, app_edit_mode, spawned, uncaught, inputEvents,
                   written, stdout_pipe, stdout_eof, reader_line, reader_queue, returned,
                   polled, primVars, tabVars>>

StartScrcpyMutNoCheck(ok) ==
    /\ runs < MaxStarts
    /\ procQuiet
    /\ UNCHANGED <<topLevel, scrcpy_hwnd, scrcpy_container_widget, scrcpy_display_id,
                   hasContainer, deferred>>
    /\ lastEvent' = "start_scrcpy"
    /\ IF ok
       THEN /\ runs' = runs + 1
            /\ scrcpy_process' = runs + 1
            /\ running' = running \cup {runs + 1}
            /\ scrcpy_stdout_reader' = "reader"
            /\ output_timer_active' = TRUE
            /\ find_callbacks' = find_callbacks \cup {runs + 1}
       ELSE UNCHANGED <<runs, scrcpy_process, running, scrcpy_stdout_reader,
                        output_timer_active, find_callbacks>>

\* MainContentAreaWidget.start_scrcpy; ok = subprocess.Popen returned (otherwise
\* it raised and the except clauses only set the placeholder text)
StartScrcpy(ok) ==
    /\ runs < MaxStarts
    /\ procQuiet
    /\ UNCHANGED <<topLevel, scrcpy_hwnd, scrcpy_container_widget, scrcpy_display_id,
                   hasContainer, deferred>>
    /\ IF scrcpy_process # None /\ scrcpy_process \in running
       THEN /\ lastEvent' = "start_scrcpy already running"
            /\ UNCHANGED <<runs, scrcpy_process, running, scrcpy_stdout_reader,
                           output_timer_active, find_callbacks>>
       ELSE /\ lastEvent' = "start_scrcpy"
            /\ IF ok
               THEN /\ runs' = runs + 1
                    /\ scrcpy_process' = runs + 1
                    /\ running' = running \cup {runs + 1}
                    /\ scrcpy_stdout_reader' = "reader"
                    /\ output_timer_active' = TRUE
                    /\ find_callbacks' = find_callbacks \cup {runs + 1}
               ELSE UNCHANGED <<runs, scrcpy_process, running, scrcpy_stdout_reader,
                                output_timer_active, find_callbacks>>

\* MainContentAreaWidget.stop_scrcpy: terminate, wait, kill ends the process; the
\* singleShot callbacks are not cancelled
StopScrcpy ==
    /\ procQuiet
    /\ lastEvent' = "stop_scrcpy"
    /\ UNCHANGED <<runs, find_callbacks, deferred>>
    /\ IF scrcpy_process # None
       THEN /\ output_timer_active' =
                   (IF scrcpy_process \in running THEN FALSE ELSE output_timer_active)
            /\ running' = running \ {scrcpy_process}
            /\ topLevel' = topLevel \ {scrcpy_process}
            /\ scrcpy_process' = None
            /\ scrcpy_hwnd' = None
            /\ scrcpy_container_widget' = None
            /\ hasContainer' = [hasContainer EXCEPT ![1] = FALSE]
            /\ scrcpy_display_id' = [scrcpy_display_id EXCEPT ![1] = "None"]
            /\ scrcpy_stdout_reader' = "None"
       ELSE UNCHANGED <<output_timer_active, running, topLevel, scrcpy_process, scrcpy_hwnd,
                        scrcpy_container_widget, hasContainer, scrcpy_display_id,
                        scrcpy_stdout_reader>>

\* the scrcpy process of a run exits by itself; its window is gone
ProcessExits(run) ==
    /\ run \in running
    /\ running' = running \ {run}
    /\ topLevel' = topLevel \ {run}
    /\ UNCHANGED <<scrcpy_process, runs, scrcpy_hwnd, scrcpy_container_widget,
                   output_timer_active, find_callbacks, scrcpy_stdout_reader,
                   scrcpy_display_id, hasContainer, deferred, lastEvent>>
    /\ procQuiet

\* the window of a running scrcpy appears on the desktop, titled
\* scrcpy_expected_title
WindowAppears(run) ==
    /\ run \in running
    /\ run \notin topLevel
    /\ scrcpy_container_widget # run
    /\ topLevel' = topLevel \cup {run}
    /\ UNCHANGED <<scrcpy_process, runs, running, scrcpy_hwnd, scrcpy_container_widget,
                   output_timer_active, find_callbacks, scrcpy_stdout_reader,
                   scrcpy_display_id, hasContainer, deferred, lastEvent>>
    /\ procQuiet

\* MainContentAreaWidget.find_and_embed_scrcpy, fired by the singleShot of chain
\* c. EnumWindows goes through the top-level windows; createWindowContainer makes
\* the window found a child of the widget. scrcpy_container_ready is connected to
\* on_scrcpy_container_ready, which defers the overlay update
FindAndEmbedScrcpy(c) ==
    /\ c \in find_callbacks
    /\ procQuiet
    /\ lastEvent' = "find_and_embed_scrcpy"
    /\ UNCHANGED <<scrcpy_process, runs, running, output_timer_active, scrcpy_stdout_reader,
                   scrcpy_display_id>>
    /\ IF scrcpy_process = None \/ scrcpy_process \notin running
       THEN /\ find_callbacks' = find_callbacks \ {c}
            /\ UNCHANGED <<scrcpy_hwnd, scrcpy_container_widget, topLevel, hasContainer,
                           deferred>>
       ELSE IF topLevel # {}
       THEN \E hwnd \in topLevel :
               /\ deferred < MaxDeferred
               /\ scrcpy_hwnd' = hwnd
               /\ scrcpy_container_widget' = hwnd
               /\ topLevel' = topLevel \ {hwnd}
               /\ hasContainer' = [hasContainer EXCEPT ![1] = TRUE]
               /\ deferred' = deferred + 1
               /\ find_callbacks' = find_callbacks \ {c}
       ELSE /\ scrcpy_hwnd' = None
            /\ find_callbacks' = find_callbacks
            /\ UNCHANGED <<scrcpy_container_widget, topLevel, hasContainer, deferred>>

\* MainContentAreaWidget._read_scrcpy_output, a tick of scrcpy_output_timer:
\* matched = the line taken from the stdout reader carries "(id=<digits>)"
ReadScrcpyOutputTick(matched) ==
    /\ output_timer_active
    /\ procQuiet
    /\ lastEvent' = "_read_scrcpy_output"
    /\ UNCHANGED <<scrcpy_process, runs, running, topLevel, scrcpy_hwnd,
                   scrcpy_container_widget, find_callbacks, scrcpy_stdout_reader, hasContainer,
                   deferred>>
    /\ IF scrcpy_process = None
       THEN /\ output_timer_active' = FALSE
            /\ UNCHANGED scrcpy_display_id
       ELSE IF matched
       THEN /\ scrcpy_display_id' =
                   [scrcpy_display_id EXCEPT ![1] = DisplayIdOfRun(scrcpy_process)]
            /\ output_timer_active' = FALSE
       ELSE UNCHANGED <<output_timer_active, scrcpy_display_id>>

\* right after construction, before the singleShot that starts scrcpy
InitProc ==
    /\ InitApp
    /\ containerPos = <<60, 0>>
    /\ containerSize = <<1600, 900>>

NextProc ==
    \/ \E ok \in BOOLEAN : StartScrcpy(ok)
    \/ StopScrcpy
    \/ \E run \in 1..MaxStarts : ProcessExits(run)
    \/ \E run \in 1..MaxStarts : WindowAppears(run)
    \/ \E c \in 1..MaxStarts : FindAndEmbedScrcpy(c)
    \/ \E matched \in BOOLEAN : ReadScrcpyOutputTick(matched)
    \/ DeferredUpdate

SpecProc == InitProc /\ [][NextProc]_vars

-----------------------------------------------------------------------------
(* OverlayWindow of scrcpy.py: moving a circle primitive in edit mode *)

\* self.device_width, self.device_height
device_width == 1920
device_height == 1080

\* self.delete_button_size
delete_button_size == 20

\* event.pos() of the pointer events, in pixels of the 960 x 540 overlay (a
\* grabbed pointer also reports positions outside the widget)
PrimitivePoints == {<<0, 0>>, <<480, 270>>, <<950, 500>>, <<-100, -100>>, <<1100, 700>>}

\* overlay position to device coordinates: on the 960 x 540 overlay actual_scale
\* is 0.5 and both offsets are 0.0, exactly so in double arithmetic
DeviceCoords(pos) == <<2 * pos[1], 2 * pos[2]>>

\* what these handlers leave alone
primQuiet ==
    UNCHANGED <<geomVars, app_edit_mode, lastKey, inputEvents, editVars, cmdVars, fileVars,
                scrcpy_stdout_reader, written, stdout_pipe, stdout_eof, reader_line,
                reader_queue, returned, polled, procVars, tabVars>>

\* OverlayWindow.add_primitive('circle', .., center_coords, dimensions), here
\* for the first primitive of the session
AddPrimitive(center, radius) ==
    /\ dimensions = 0
    /\ center_coords' = center
    /\ dimensions' = radius
    /\ lastEvent' = "add_primitive"
    /\ UNCHANGED <<start_point, primitive_being_moved, selected_primitive>>
    /\ primQuiet

\* OverlayWindow.mousePressEvent in edit mode, left button, for a press inside
\* the device bounds that lands on the circle (find_primitive_at_coords) and not
\* on the delete button of the selected circle (is_delete_button_hit, whose
\* button is centred at (x + 0.7 r, y - 0.7 r))
PressOnCircle(pos) ==
    LET d == DeviceCoords(pos)
        dx == d[1] - center_coords[1]
        dy == d[2] - center_coords[2]
        bx == 10 * dx - 7 * dimensions
        by == 10 * dy + 7 * dimensions
    IN /\ dimensions > 0
       /\ 0 <= d[1] /\ d[1] <= device_width /\ 0 <= d[2] /\ d[2] <= device_height
       /\ ~(selected_primitive /\ bx * bx + by * by <= (5 * delete_button_size)
                                                         * (5 * delete_button_size))
       /\ dx * dx + dy * dy <= dimensions * dimensions
       /\ start_point' = d
       /\ selected_primitive' = TRUE
       /\ primitive_being_moved' = TRUE
       /\ lastEvent' = "mousePressEvent on circle"
       /\ UNCHANGED <<center_coords, dimensions>>
       /\ primQuiet

ClampCenterMutFree(v, radius, extent) == v

\* max(radius, min(extent - radius, v))
ClampCenter(v, radius, extent) ==
    LET upper == IF extent - radius < v THEN extent - radius ELSE v
    IN IF radius > upper THEN radius ELSE upper

\* OverlayWindow.mouseMoveEvent in edit mode while no primitive is being created
PrimitiveMouseMoveEvent(pos) ==
    LET d == DeviceCoords(pos)
    IN /\ start_point # <<>>
       /\ lastEvent' = "mouseMoveEvent on circle"
       /\ primQuiet
       /\ UNCHANGED <<dimensions, primitive_being_moved, selected_primitive>>
       /\ IF primitive_being_moved /\ selected_primitive
          THEN /\ center_coords' =
                    <<ClampCenter(center_coords[1] + (d[1] - start_point[1]), dimensions,
                                  device_width),
                      ClampCenter(center_coords[2] + (d[2] - start_point[2]), dimensions,
                                  device_height)>>
               /\ start_point' = d
          ELSE UNCHANGED <<center_coords, start_point>>

\* OverlayWindow.mouseReleaseEvent in edit mode, left button, while no primitive
\* is being created: the release that ends a move returns before start_point is
\* cleared
PrimitiveMouseReleaseEvent ==
    /\ dimensions > 0
    /\ lastEvent' = "mouseReleaseEvent on circle"
    /\ primQuiet
    /\ UNCHANGED <<center_coords, dimensions, selected_primitive>>
    /\ IF primitive_being_moved /\ selected_primitive
       THEN /\ primitive_being_moved' = FALSE
            /\ UNCHANGED start_point
       ELSE /\ start_point' = <<>>
            /\ UNCHANGED primitive_being_moved

NextPrimitive ==
    \/ \E center \in {<<0, 0>>, <<960, 540>>, <<1900, 1000>>}, radius \in {100, 540, 600} :
          AddPrimitive(center, radius)
    \/ \E pos \in PrimitivePoints : PressOnCircle(pos)
    \/ \E pos \in PrimitivePoints : PrimitiveMouseMoveEvent(pos)
    \/ PrimitiveMouseReleaseEvent

SpecPrimitive == InitEdit /\ [][NextPrimitive]_vars

-----------------------------------------------------------------------------
(* SettingsDialog: the General tab and the instance tabs *)

\* cap on the number of tabs of the dialog
MaxTabs == 4

\* the "instances" lists a dialog is opened with; a record without
\* instance_name gets the default tab text
InitialInstanceSettings ==
    {<<>>,
     <<[instance_name |-> "Phone"]>>,
     <<[resolution |-> "1920x1080"]>>,
     <<[instance_name |-> "Phone"], [resolution |-> "1280x720"]>>}

\* f"Instance {self.tab_widget.count()}"
DefaultInstanceName(count) == "Instance " \o ToString(count)

\* what the dialog's handlers leave alone
tabQuiet ==
    UNCHANGED <<geomVars, app_edit_mode, lastKey, inputEvents, editVars, cmdVars, fileVars,
                scrcpy_stdout_reader, written, stdout_pipe, stdout_eof, reader_line,
                reader_queue, returned, polled, procVars, primVars>>

\* the loop of _load_initial_instance_settings: QTabWidget.addTab appends and
\* leaves the current tab alone
RECURSIVE LoadInstanceTabs(_, _)
LoadInstanceTabs(loaded, settings) ==
    IF settings = <<>> THEN loaded
    ELSE LET settings_data == Head(settings)
             instance_name == IF "instance_name" \in DOMAIN settings_data
                              THEN settings_data.instance_name
                              ELSE DefaultInstanceName(Len(loaded))
         IN LoadInstanceTabs(Append(loaded, instance_name), Tail(settings))

\* SettingsDialog.__init__: _add_general_tab, which makes General the current
\* tab, then _load_initial_instance_settings
SettingsDialogInit(initial_instance_settings) ==
    /\ tabs = <<>>
    /\ IF initial_instance_settings = <<>>
       THEN /\ tabs' = <<"General", DefaultInstanceName(1)>>
            /\ current_tab' = 1
       ELSE /\ tabs' = LoadInstanceTabs(<<"General">>, initial_instance_settings)
            /\ current_tab' = 0
    /\ lastEvent' = "SettingsDialog"
    /\ tabQuiet

\* SettingsDialog._add_new_tab
AddNewTab ==
    /\ tabs # <<>>
    /\ Len(tabs) < MaxTabs
    /\ tabs' = Append(tabs, DefaultInstanceName(Len(tabs)))
    /\ current_tab' = Len(tabs)
    /\ lastEvent' = "_add_new_tab"
    /\ tabQuiet

\* the user selects a tab of the tab bar
SelectTab(index) ==
    /\ tabs # <<>>
    /\ index < Len(tabs)
    /\ current_tab' = index
    /\ lastEvent' = "currentChanged"
    /\ UNCHANGED tabs
    /\ tabQuiet

RemovalRefusedMutGeneralOnly(current_index, count) == current_index = 0

\* current_index == 0 or self.tab_widget.count() <= 2
RemovalRefused(current_index, count) == current_index = 0 \/ count <= 2

\* SettingsDialog._remove_current_tab; after QTabWidget.removeTab the tab to the
\* right of the removed one becomes current, the last one if there is none
RemoveCurrentTab ==
    /\ tabs # <<>>
    /\ tabQuiet
    /\ IF RemovalRefused(current_tab, Len(tabs))
       THEN /\ lastEvent' = "_remove_current_tab refused"
            /\ UNCHANGED tabVars
       ELSE /\ lastEvent' = "_remove_current_tab"
            /\ tabs' = [i \in 1..(Len(tabs) - 1) |->
                           IF i <= current_tab THEN tabs[i] ELSE tabs[i + 1]]
            /\ current_tab' = IF current_tab = Len(tabs) - 1 THEN current_tab - 1
                              ELSE current_tab

\* Cancel: QDialog.reject closes the dialog; the next one is built anew
SettingsDialogReject ==
    /\ tabs # <<>>
    /\ tabs' = <<>>
    /\ current_tab' = -1
    /\ lastEvent' = "reject"
    /\ tabQuiet

NextTabs ==
    \/ \E initial_instance_settings \in InitialInstanceSettings :
          SettingsDialogInit(initial_instance_settings)
    \/ AddNewTab
    \/ \E index \in 0..(MaxTabs - 1) : SelectTab(index)
    \/ RemoveCurrentTab
    \/ SettingsDialogReject

SpecTabs == InitEdit /\ [][NextTabs]_vars

-----------------------------------------------------------------------------
(* Edit sessions across restarts of the program *)

\* a keymaps.json with a record that lacks "normalized_size" between the records
\* of the two start-up keymaps
MalformedFile ==
    FileWith(<<ToDict(DefaultKeymaps[1]),
               [keycombo |-> <<"Key_A">>,
                normalized_position |-> <<Rat(1, 2), Rat(1, 2)>>,
                type |-> "circle"],
               ToDict(DefaultKeymaps[2])>>)

\* the keymaps.json files the program is started with
StoreFiles == {StartupFile(DefaultKeymaps), StartupFile(<<>>), MalformedFile}

InitStore ==
    /\ InitEmbedded(<<60, 0>>, <<1600, 900>>)
    /\ keymap_file \in StoreFiles
    /\ keymaps = LoadedKeymaps(keymap_file)

\* pointer positions used in these sessions
StorePoints == {<<100, 100>>, <<10, 10>>}

\* the disk becomes full or read-only, or usable again
DiskChange ==
    /\ diskWritable' = ~diskWritable
    /\ UNCHANGED readerVars
    /\ UNCHANGED <<geomVars, app_edit_mode, lastEvent, lastKey, inputEvents, editVars,
                   cmdVars, keymap_file, saveOutcome>>

NextStore ==
    \/ ToggleEditMode
    \/ \E p \in StorePoints : MousePressEvent(p, "Left")
    \/ \E p \in StorePoints : MouseMoveEvent(p)
    \/ \E p \in StorePoints : MouseReleaseEvent(p, "Left")
    \/ \E k \in Keys : AppKeyPressEvent(k)
    \/ Restart
    \/ DiskChange

SpecStore == InitStore /\ [][NextStore]_vars

-----------------------------------------------------------------------------
(* Edit sessions followed by play on the same page, up to the first command *)


\* MyQtApp.keyPressEvent while no command has been dispatched yet
KeyPressBeforeCommand(key) ==
    /\ spawned = <<>>
    /\ AppKeyPressEvent(key)

NextSwitch ==
    \/ ToggleEditMode
    \/ \E p \in StorePoints : MousePressEvent(p, "Left")
    \/ \E p \in StorePoints : MouseMoveEvent(p)
    \/ \E p \in StorePoints : MouseReleaseEvent(p, "Left")
    \/ \E k \in Keys : KeyPressBeforeCommand(k)
    \/ ReadScrcpyOutput(currentPage, "7")

SpecSwitch == InitEdit /\ [][NextSwitch]_vars

-----------------------------------------------------------------------------
(* Play-mode dispatch on an embedded container *)

\* the records of keymaps.json for list, each with the key "hold" set to the
\* value holds gives for its position
RecordsWithHold(list, holds) ==
    [i \in DOMAIN list |-> ToDict(list[i]) @@ [hold |-> holds[i]]]

\* the keymaps.json files play mode starts with: the one written at the first
\* start, one written by earlier sessions, and the start-up keymaps with a
\* "hold" key that is true for the second
CmdFiles ==
    {StartupFile(DefaultKeymaps), StartupFile(ScenarioKeymaps),
     FileWith(RecordsWithHold(DefaultKeymaps, <<FALSE, TRUE>>))}

\* sizes of the container the overlay is laid over
CmdSizes == {<<1600, 900>>, <<800, 600>>}

InitCmd ==
    /\ \E size \in CmdSizes : InitEmbedded(<<60, 0>>, size)
    /\ keymap_file \in CmdFiles
    /\ keymaps = LoadedKeymaps(keymap_file)

NextCmd ==
    \/ \E k \in Keys : AppKeyPressEvent(k)
    \/ \E p \in Pages, id \in DisplayIds : ReadScrcpyOutput(p, id)
    \/ \E i \in Pages : OnStackedWidgetPageChanged(i)

SpecCmd == InitCmd /\ [][NextCmd]_vars

-----------------------------------------------------------------------------
(* The resolver on its own: containers of many sizes, already embedded *)

ResolverWidths == {100, 101, 177, 178, 1600, 1601, 1777, 1778}
ResolverHeights == {100, 101, 900, 901, 1000, 1001}

\* the windows have just been embedded; the first update is still deferred
InitResolver ==
    /\ InitSession
    /\ keymaps = DefaultKeymaps
    /\ keymap_file = StartupFile(DefaultKeymaps)
    /\ hasContainer = [p \in Pages |-> TRUE]
    /\ deferred = 1
    /\ overlayGeom = [x |-> 0, y |-> 0, w |-> 640, h |-> 480]
    /\ overlayVisible = FALSE
    /\ lastEvent = "on_scrcpy_container_ready"
    /\ containerPos \in Positions
    /\ containerSize \in ResolverWidths \X ResolverHeights

NextResolver ==
    \/ DeferredUpdate
    \/ ShowEvent
    \/ \E p \in Positions : MoveEvent(p)

SpecResolver == InitResolver /\ [][NextResolver]_vars

\* the overlay rectangle relative to the container's origin
RelGeom == [x |-> overlayGeom.x - containerPos[1], y |-> overlayGeom.y - containerPos[2],
            w |-> overlayGeom.w, h |-> overlayGeom.h]

\* C5: for every container size w,h > 0 the resolved rect is no larger than the
\* container, is centered in it (the two margins of an axis differ by at most one
\* pixel) and has the aspect ratio 16:9 up to the truncation of one side to an integer.
C5_FitsCenteredRatio ==
    overlayVisible =>
        LET g == RelGeom
            cw == containerSize[1]
            ch == containerSize[2]
        IN /\ g.w <= cw /\ g.h <= ch
           /\ g.x >= 0 /\ g.y >= 0
           /\ (cw - g.w) - 2 * g.x \in {0, 1}
           /\ (ch - g.h) - 2 * g.y \in {0, 1}
           /\ \/ (AspectDen * g.w - AspectNum * g.h) \in 0..(AspectNum - 1)
              \/ (AspectNum * g.h - AspectDen * g.w) \in 0..(AspectDen - 1)

\* C5 witness: a letterboxed rect (bands left and right) and an odd margin
C5_Witness ==
    /\ overlayVisible
    /\ containerSize = <<1778, 901>>
    /\ RelGeom.x > 0
    /\ RelGeom.h = 901

\* C6 as stated: full width is used exactly when containerWidth / r <= containerHeight
\* (real-valued quotient), full height otherwise; 1600x900 gives {0,0,1600,900} and
\* 1600x1000 gives {0,50,1600,900}.
C6_Original ==
    overlayVisible =>
        LET g == RelGeom
            cw == containerSize[1]
            ch == containerSize[2]
        IN /\ IF cw * AspectDen <= ch * AspectNum
              THEN g.w = cw
              ELSE g.h = ch /\ g.w = (ch * AspectNum) \div AspectDen
           /\ (containerSize = <<1600, 900>> => g = [x |-> 0, y |-> 0, w |-> 1600, h |-> 900])
           /\ (containerSize = <<1600, 1000>> => g = [x |-> 0, y |-> 50, w |-> 1600, h |-> 900])

\* C6 amended: full width is used exactly when int(containerWidth / r), the height
\* truncated to whole pixels, is <= containerHeight, and otherwise the full height
\* with width int(containerHeight * r); 1600x900 gives {0,0,1600,900} and 1600x1000
\* gives {0,50,1600,900}.
C6_TruncatedRule ==
    overlayVisible =>
        LET g == RelGeom
            cw == containerSize[1]
            ch == containerSize[2]
        IN /\ IF (cw * AspectDen) \div AspectNum <= ch
              THEN g.w = cw /\ g.h = (cw * AspectDen) \div AspectNum
              ELSE g.h = ch /\ g.w = (ch * AspectNum) \div AspectDen
           /\ (containerSize = <<1600, 900>> => g = [x |-> 0, y |-> 0, w |-> 1600, h |-> 900])
           /\ (containerSize = <<1600, 1000>> => g = [x |-> 0, y |-> 50, w |-> 1600, h |-> 900])

\* C6 witness: the 1600x1000 scenario has been resolved
C6_Witness ==
    /\ overlayVisible
    /\ containerSize = <<1600, 1000>>
    /\ RelGeom = [x |-> 0, y |-> 50, w |-> 1600, h |-> 900]

-----------------------------------------------------------------------------
(* Claims about geometry synchronisation (SpecGeom) *)

\* handlers that end with a synchronous update_global_overlay_geometry
UpdatingEvents == {"deferredUpdate", "moveEvent", "toggle_maximize_restore",
                   "page_changed", "showEvent", "toggle_edit_mode"}

\* the overlay shows what the resolver gives for the current page and container rect
OverlaySynced ==
    /\ overlayVisible = hasContainer[currentPage]
    /\ overlayVisible => overlayGeom = ResolveRect(containerPos, containerSize)

C9_QuiescentSynced ==
    (deferred = 0 /\ ~pendingResize) => OverlaySynced

\* C9 witness: the callback deferred by a resize after a maximize has run
C9_Witness ==
    /\ lastEvent = "deferredUpdate"
    /\ deferred = 0 /\ ~pendingResize
    /\ isMaximized
    /\ overlayVisible
    /\ containerSize = <<1600, 1000>>

\* the two roles of the overlay
playOverlayVisible == overlayVisible /\ ~edit_mode_active
editOverlayVisible == overlayVisible /\ edit_mode_active

-----------------------------------------------------------------------------
(* Claims about the edit session and the command dispatch *)

InUnitInterval(pos, size) ==
    /\ RatLe(Rat(0, 1), pos)
    /\ RatLe(RatAdd(pos, size), Rat(1, 1))

\* C1: for every keymap in the store, after any sequence of edit-mode pointer
\* events, normalized_position and normalized_position + normalized_size lie
\* within [0,1] on both axes.
C1_WithinUnitSquare ==
    \A i \in DOMAIN keymaps :
        /\ InUnitInterval(keymaps[i].normalized_position[1], keymaps[i].normalized_size[1])
        /\ InUnitInterval(keymaps[i].normalized_position[2], keymaps[i].normalized_size[2])

\* C2: a step that leaves edit mode discards the in-flight creation: the list
\* handed to keymaps_changed does not contain the keymap being created, the
\* selection is cleared and no drag or creation remains in progress.
C2_ExitDiscardsInFlight ==
    [][(app_edit_mode /\ ~app_edit_mode') =>
          /\ emitted'.fired
          /\ (creating_keymap /\ dragging_keymap # None)
                => dragging_keymap \notin Ids(emitted'.payload)
          /\ selected_keymap_for_combo_edit' = None
          /\ dragging_keymap' = None
          /\ ~creating_keymap']_vars

Succeeded == SelectSeq(spawned, LAMBDA s : s.ok)

\* C3: however many commands are dispatched, at most one connection to the
\* device is ever established: the successful spawns never exceed one.
C3_SingleConnection == Len(Succeeded) <= 1

\* a play-mode press of key reaches send_adb_keyevent or send_scrcpy_tap
Dispatches(key) == key = "Key_Escape" \/ PlayMatches(key) # {}

-----------------------------------------------------------------------------
(* Claims about the edit-mode gestures *)

\* a left press at p lands on the delete button of the selected keymap
DeleteByPointer(p) ==
    /\ edit_mode_active
    /\ selected_keymap_for_combo_edit # None
    /\ XButtonContains(KeymapById(keymaps, selected_keymap_for_combo_edit), p)
    /\ MousePressEvent(p, "Left")

\* the Delete key reaches the overlay while a keymap is selected
DeleteByKey ==
    /\ edit_mode_active
    /\ selected_keymap_for_combo_edit # None
    /\ AppKeyPressEvent("Key_Delete")

\* new is old without its element of identity id, the others in their order
RemovedExactly(old, new, id) ==
    \E i \in DOMAIN old :
        /\ old[i].id = id
        /\ Len(new) = Len(old) - 1
        /\ \A j \in DOMAIN new : new[j] = IF j < i THEN old[j] ELSE old[j + 1]

\* C11: deleting the selected keymap, by a press on its delete button or by the
\* Delete key, removes exactly that record, leaves the others unchanged and in
\* order, clears the selection with no drag in progress, and emits
\* keymaps_changed with the new list.
C11_DeleteRemovesExactly ==
    [][((\E p \in Points : DeleteByPointer(p)) \/ DeleteByKey) =>
          /\ RemovedExactly(keymaps, keymaps', selected_keymap_for_combo_edit)
          /\ selected_keymap_for_combo_edit' = None
          /\ dragging_keymap' = None
          /\ ~creating_keymap'
          /\ emitted' = Emission(keymaps')]_vars

\* the first start-up keymap was deleted through its delete button; the second
\* one is all that is left
C11_Witness ==
    /\ lastEvent = "mousePressEvent"
    /\ emitted.fired
    /\ keymaps = <<DefaultKeymaps[2]>>
    /\ selected_keymap_for_combo_edit = None

\* two keymap lists agree record by record in every stored field
SameRecords(a, b) ==
    /\ Len(a) = Len(b)
    /\ \A i \in DOMAIN a :
          /\ a[i].normalized_size = b[i].normalized_size
          /\ a[i].keycombo = b[i].keycombo
          /\ a[i].normalized_position = b[i].normalized_position
          /\ a[i].type = b[i].type

CreationDrag(p) ==
    /\ edit_mode_active
    /\ creating_keymap
    /\ dragging_keymap # None
    /\ MouseMoveEvent(p)

\* the square of the given pixel side anchored at origin o that extends toward
\* the quadrant of p, as normalized position and size
AnchoredSquare(o, p, side) ==
    LET left == IF p[1] - o[1] < 0 THEN o[1] - side ELSE o[1]
        top == IF p[2] - o[2] < 0 THEN o[2] - side ELSE o[2]
    IN [normalized_position |-> <<Rat(left, Width), Rat(top, Height)>>,
        normalized_size |-> <<Rat(side, Width), Rat(side, Height)>>]

\* the pixel side of the placeholder for a drag from o to p
PlaceholderSide(o, p) ==
    LET m == IF Abs(p[1] - o[1]) < Abs(p[2] - o[2]) THEN Abs(p[1] - o[1])
             ELSE Abs(p[2] - o[2])
    IN IF m < 10 THEN 10 ELSE m

\* C13: during a creation drag from origin O to pointer P the placeholder is the
\* square of pixel side min(|dx|,|dy|), raised to 10 px, that has O as a corner
\* and extends toward the quadrant of P; the other keymaps are untouched.
C13_CreationDragSquare ==
    [][\A p \in Points :
          CreationDrag(p) =>
             LET km == KeymapById(keymaps', dragging_keymap)
                 sq == AnchoredSquare(drag_start_pos_local, p,
                                      PlaceholderSide(drag_start_pos_local, p))
             IN /\ km.normalized_position = sq.normalized_position
                /\ km.normalized_size = sq.normalized_size]_vars

\* a left press at p that lands on no keymap and not on the delete button of
\* the selected keymap
CreationPress(p) ==
    /\ edit_mode_active
    /\ ~\E q \in Points : DeleteByPointer(q)
    /\ \A i \in DOMAIN keymaps : ~KeymapRectContains(keymaps[i], p)
    /\ MousePressEvent(p, "Left")

\* the left release at p that ends a creation with less than 5 px between
\* press and release
CreationClick(p) ==
    /\ edit_mode_active
    /\ creating_keymap
    /\ dragging_keymap # None
    /\ (p[1] - drag_start_pos_local[1]) * (p[1] - drag_start_pos_local[1])
         + (p[2] - drag_start_pos_local[2]) * (p[2] - drag_start_pos_local[2]) < 25
    /\ MouseReleaseEvent(p, "Left")

\* the records of list other than the one of identity id, in their order
Others(list, id) == SelectSeq(list, LAMBDA k : k.id # id)

\* C14: a press on empty space appends the placeholder to the store and the
\* moves of the gesture change nothing else; a release less than 5 px from the
\* press replaces the placeholder by one new keymap of 100 px diameter centered
\* at the release point, appended after the earlier records, which are
\* unchanged: the store is one record longer than before the press. A click
\* at (300,300) gives the pixel position (250,250).
C14_ClickCreatesDefault ==
    [][\A p \in Points :
          /\ CreationPress(p) =>
                /\ creating_keymap'
                /\ Len(keymaps') = Len(keymaps) + 1
                /\ Others(keymaps', dragging_keymap') = keymaps
          /\ CreationDrag(p) => Others(keymaps', dragging_keymap) = Others(keymaps, dragging_keymap)
          /\ CreationClick(p) =>
                LET before == Others(keymaps, dragging_keymap)
                    new_keymap == keymaps'[Len(keymaps')]
                IN /\ Len(before) = Len(keymaps) - 1
                   /\ Len(keymaps') = Len(before) + 1
                   /\ \A i \in DOMAIN before : keymaps'[i] = before[i]
                   /\ \A i \in DOMAIN before : new_keymap.id # before[i].id
                   /\ new_keymap.keycombo = <<>>
                   /\ PixelW(new_keymap) = Rat(100, 1) /\ PixelH(new_keymap) = Rat(100, 1)
                   /\ RatAdd(PixelX(new_keymap), Rat(50, 1)) = Rat(p[1], 1)
                   /\ RatAdd(PixelY(new_keymap), Rat(50, 1)) = Rat(p[2], 1)
                   /\ PixelX(DefaultKeymapAt(1, <<300, 300>>)) = Rat(250, 1)
                   /\ PixelY(DefaultKeymapAt(1, <<300, 300>>)) = Rat(250, 1)]_vars

\* a click at (160,140) added a third keymap centered there to the two
\* start-up keymaps
C14_Witness ==
    /\ lastEvent = "mouseReleaseEvent"
    /\ emitted.fired
    /\ keymaps = Append(DefaultKeymaps, DefaultKeymapAt(3, <<160, 140>>))

\* the left release at p that ends a creation, by click or by drag
CreationRelease(p) ==
    /\ edit_mode_active
    /\ creating_keymap
    /\ dragging_keymap # None
    /\ MouseReleaseEvent(p, "Left")

\* a key press reaches the overlay right after a release left a keymap selected
KeyAfterRelease(key) ==
    /\ edit_mode_active
    /\ lastEvent = "mouseReleaseEvent"
    /\ selected_keymap_for_combo_edit # None
    /\ AppKeyPressEvent(key)

\* the keymap that was selected is in the new list with a combo ending in key
BoundTo(key) ==
    \E i \in DOMAIN keymaps' :
        /\ keymaps'[i].id = selected_keymap_for_combo_edit
        /\ keymaps'[i].keycombo # <<>>
        /\ keymaps'[i].keycombo[Len(keymaps'[i].keycombo)] = key

\* the release that ends a creation selects the created keymap, which is in
\* the store: the new last record after a click, the dragged-out one after a drag
CreatedIsSelected ==
    \A p \in Points :
        CreationRelease(p) =>
           /\ selected_keymap_for_combo_edit' # None
           /\ \E i \in DOMAIN keymaps' : keymaps'[i].id = selected_keymap_for_combo_edit'
           /\ \/ selected_keymap_for_combo_edit' = dragging_keymap
              \/ /\ selected_keymap_for_combo_edit' = keymaps'[Len(keymaps')].id
                 /\ \A i \in DOMAIN keymaps : keymaps[i].id # selected_keymap_for_combo_edit'
           /\ dragging_keymap' = None
           /\ ~creating_keymap'

\* C15 as stated: after the release that ends a creation the created keymap is
\* selected, and the next key press, if it is any non-modifier key, binds it.
C15_NextKeyBinds ==
    [][/\ CreatedIsSelected
       /\ \A key \in Keys \ ModifierKeys : KeyAfterRelease(key) => BoundTo(key)]_vars

\* C15 amended: after the release that ends a creation the created keymap is
\* selected; the next key press binds it if the key is neither a modifier nor
\* Delete, and removes it from the store if the key is Delete.
C15_NextKeyBindsUnlessDelete ==
    [][/\ CreatedIsSelected
       /\ \A key \in Keys \ (ModifierKeys \cup {"Key_Delete"}) :
             KeyAfterRelease(key) => BoundTo(key)
       /\ KeyAfterRelease("Key_Delete") =>
             RemovedExactly(keymaps, keymaps', selected_keymap_for_combo_edit)]_vars

\* the keymap created by a click at (160,140) was bound to A by the next event
C15_Witness ==
    /\ lastEvent = "keyPressEvent"
    /\ lastKey = "Key_A"
    /\ keymaps = Append(DefaultKeymaps,
                        [DefaultKeymapAt(3, <<160, 140>>) EXCEPT !.keycombo = <<"Key_A">>])

\* a left press at p that lands on a keymap and not on the delete button of the
\* selected keymap, with no creation in progress
MovePress(p) ==
    /\ edit_mode_active
    /\ ~creating_keymap
    /\ ~\E q \in Points : DeleteByPointer(q)
    /\ \E i \in DOMAIN keymaps : KeymapRectContains(keymaps[i], p)
    /\ MousePressEvent(p, "Left")

\* the square of the distance between the press and p, in pixels
DistanceMovedSq(p) ==
    (p[1] - drag_start_pos_local[1]) * (p[1] - drag_start_pos_local[1])
      + (p[2] - drag_start_pos_local[2]) * (p[2] - drag_start_pos_local[2])

\* the left release at p that ends the move of an existing keymap
MoveRelease(p) ==
    /\ edit_mode_active
    /\ ~creating_keymap
    /\ dragging_keymap # None
    /\ MouseReleaseEvent(p, "Left")

\* C16: a press on an existing keymap makes the first keymap under the pointer
\* the moving keymap; the release that ends the move 5 px or more from the press
\* leaves every record, the moved one with its new position, as the last move
\* left it, and the moved keymap is the selected keymap.
C16_MoveKeepsSelection ==
    [][\A p \in Points :
          /\ MovePress(p) =>
                /\ dragging_keymap' # None
                /\ KeymapRectContains(KeymapById(keymaps, dragging_keymap'), p)
                /\ keymaps' = keymaps
          /\ (MoveRelease(p) /\ DistanceMovedSq(p) >= 25) =>
                /\ keymaps' = keymaps
                /\ selected_keymap_for_combo_edit' = dragging_keymap]_vars

\* keymap km lies at the whole-pixel position that the press recorded as the
\* origin of the move, keymap_original_pixel_pos
AtMoveOrigin(km) ==
    /\ keymap_original_pixel_pos[1] \in IntOfDouble(PixelX(km))
    /\ keymap_original_pixel_pos[2] \in IntOfDouble(PixelY(km))

\* C17: the release that ends a press on an existing keymap less than 5 px from
\* the press is a pure selection: the keymap becomes the selected keymap and
\* lies where it lay before the press, whatever moves came in between.
C17_ClickIsPureSelection ==
    [][\A p \in Points :
          (MoveRelease(p) /\ DistanceMovedSq(p) < 25) =>
             /\ selected_keymap_for_combo_edit' = dragging_keymap
             /\ AtMoveOrigin(KeymapById(keymaps', dragging_keymap))]_vars

\* a key press reaches the overlay while a keymap is selected
KeyWhileSelected(key) ==
    /\ edit_mode_active
    /\ selected_keymap_for_combo_edit # None
    /\ AppKeyPressEvent(key)

\* the step only stashed key as the pending modifier
StashedOnly(key) ==
    /\ pending_modifier_key' = key
    /\ keymaps' = keymaps
    /\ selected_keymap_for_combo_edit' = selected_keymap_for_combo_edit
    /\ ~emitted'.fired

\* the step gave the selected keymap the combo [pending modifier (if any), key],
\* changed no other field and no other record, cleared the pending modifier and
\* the selection, and emitted keymaps_changed with the new list
Finalized(key) ==
    /\ Len(keymaps') = Len(keymaps)
    /\ \A i \in DOMAIN keymaps :
          keymaps'[i] = IF keymaps[i].id = selected_keymap_for_combo_edit
                        THEN [keymaps[i] EXCEPT
                                !.keycombo = IF pending_modifier_key = "None" THEN <<key>>
                                             ELSE <<pending_modifier_key, key>>]
                        ELSE keymaps[i]
    /\ pending_modifier_key' = "None"
    /\ selected_keymap_for_combo_edit' = None
    /\ emitted' = Emission(keymaps')

\* C18 as stated: while a keymap is selected, a modifier key press only stashes
\* the modifier, and every non-modifier key press finalizes the combo.
C18_KeyAssignsCombo ==
    [][/\ \A key \in Keys \cap ModifierKeys : KeyWhileSelected(key) => StashedOnly(key)
       /\ \A key \in Keys \ ModifierKeys : KeyWhileSelected(key) => Finalized(key)]_vars

\* C18 amended: while a keymap is selected, a modifier key press only stashes
\* the modifier, and a key press that is neither a modifier nor Delete
\* finalizes the combo.
C18_KeyAssignsComboUnlessDelete ==
    [][/\ \A key \in Keys \cap ModifierKeys : KeyWhileSelected(key) => StashedOnly(key)
       /\ \A key \in Keys \ (ModifierKeys \cup {"Key_Delete"}) :
             KeyWhileSelected(key) => Finalized(key)]_vars

\* a keymap created by a click at (160,140) got Shift, then A
C18_Witness ==
    /\ lastEvent = "keyPressEvent"
    /\ pending_modifier_key = "None"
    /\ selected_keymap_for_combo_edit = None
    /\ emitted.fired
    /\ keymaps = Append(DefaultKeymaps,
                        [DefaultKeymapAt(3, <<160, 140>>)
                           EXCEPT !.keycombo = <<"Key_Shift", "Key_A">>])

\* the left release at p, with no move since the press and less than 5 px from
\* it, of a press on empty space that took the selection away
CancelClick(p) ==
    /\ lastEvent = "mousePressEvent deselecting"
    /\ CreationClick(p)

\* C19: a press on empty space while a keymap is selected, followed by a
\* release with no drag, only deselects: after the release nothing is selected
\* and the store holds the records it held before the press, that is, the
\* records other than the placeholder of the gesture.
C19_EmptyPressCancels ==
    [][\A p \in Points :
          CancelClick(p) =>
             /\ selected_keymap_for_combo_edit' = None
             /\ keymaps' = Others(keymaps, dragging_keymap)]_vars

\* toggle_edit_mode leaves edit mode
ExitEditMode ==
    /\ app_edit_mode
    /\ ToggleEditMode

\* the step is the terminal step of a mutating transition of the edit session:
\* the release that ends a creation or a move, a delete by the delete button or
\* by the Delete key, or a combo assignment
TerminalStep ==
    \/ \E p \in Points : CreationRelease(p) \/ MoveRelease(p) \/ DeleteByPointer(p)
    \/ DeleteByKey
    \/ \E key \in Keys \ ModifierKeys : KeyWhileSelected(key)

\* C20: every terminal step of a mutating transition and every exit from edit
\* mode emits keymaps_changed within the step, carrying the store as the step
\* leaves it, and the save connected to the signal has run.
C20_TerminalStepsEmit ==
    [][(TerminalStep \/ ExitEditMode) =>
          /\ emitted' = Emission(keymaps')
          /\ saveOutcome' \in {"saved", "error"}
          /\ saveOutcome' = "saved" => SameRecords(LoadedKeymaps(keymap_file'), keymaps')]_vars

\* edit mode was left with a keymap created in the session in the store, and
\* the notification carried that store
C20_Witness ==
    /\ lastEvent = "toggle_edit_mode"
    /\ ~app_edit_mode
    /\ emitted = Emission(keymaps)
    /\ keymaps = Append(DefaultKeymaps, DefaultKeymapAt(3, <<160, 140>>))

-----------------------------------------------------------------------------
(* Claims about play-mode dispatch *)

\* a key press reaches MyQtApp.keyPressEvent in play mode while the display id
\* of the current page is known
PlayKeyPress(key) ==
    /\ ~app_edit_mode
    /\ scrcpy_display_id[currentPage] # "None"
    /\ AppKeyPressEvent(key)

\* positions of the keymaps whose stored combo begins with key
FirstKeyMatches(key) ==
    {i \in DOMAIN keymaps : keymaps[i].keycombo # <<>> /\ keymaps[i].keycombo[1] = key}

\* the step handed exactly one command to subprocess.Popen: a tap at the native
\* center of keymap
TappedAt(keymap) ==
    /\ Len(spawned') = Len(spawned) + 1
    /\ spawned'[Len(spawned')].cmd =
          TapCommand(scrcpy_display_id[currentPage], CenterXNative(keymap),
                     CenterYNative(keymap))

\* C21: a play-mode press of a key other than Escape activates a keymap exactly
\* when the key equals the first key of that keymap's combo, of one key or of
\* two; the first such keymap in list order is activated, and when there is
\* none nothing is dispatched.
C21_FirstComboKeyActivates ==
    [][\A key \in Keys \ {"Key_Escape"} :
          PlayKeyPress(key) =>
             IF FirstKeyMatches(key) # {}
             THEN TappedAt(keymaps[SetMin(FirstKeyMatches(key))])
             ELSE spawned' = spawned]_vars

\* the exact center of keymap on one axis of the native resolution
ExactCenter(keymap, axis, native) ==
    RatAdd(RatMul(keymap.normalized_position[axis], native),
           RatHalf(RatMul(keymap.normalized_size[axis], native)))

\* integer v is rational r with its fraction cut off (r is not negative)
Truncates(v, r) == v * r.d <= r.n /\ r.n < (v + 1) * r.d

\* the tap the step dispatched lies, on each axis, at
\* normalized_position * native + normalized_size * native / 2 as an integer
TapAtNativeCenter(keymap) ==
    LET cmd == spawned'[Len(spawned')].cmd
    IN /\ Len(spawned') = Len(spawned) + 1
       /\ cmd.kind = "tap"
       /\ Truncates(cmd.x, ExactCenter(keymap, 1, SCRCPY_NATIVE_WIDTH))
       /\ Truncates(cmd.y, ExactCenter(keymap, 2, SCRCPY_NATIVE_HEIGHT))

\* a play-mode press of key activates the keymap at position i of the list
Activates(key, i) ==
    /\ key # "Key_Escape"
    /\ PlayMatches(key) # {}
    /\ i = SetMin(PlayMatches(key))
    /\ PlayKeyPress(key)

\* the step dispatched a tap at native pixel (x, y)
TapDispatchedAt(x, y) ==
    /\ Len(spawned') = Len(spawned) + 1
    /\ spawned'[Len(spawned')].cmd.kind = "tap"
    /\ spawned'[Len(spawned')].cmd.x = x
    /\ spawned'[Len(spawned')].cmd.y = y

\* the keymap of size (0.05, 0.05) at (0.5, 0.5) is activated
ScenarioActivated ==
    \E key \in Keys, i \in DOMAIN keymaps :
        /\ Activates(key, i)
        /\ keymaps[i].normalized_position = <<Rat(1, 2), Rat(1, 2)>>
        /\ keymaps[i].normalized_size = <<Rat(1, 20), Rat(1, 20)>>

\* C22 as stated: the tap of an activated keymap lies at its native center,
\* whatever the overlay rect, and the keymap of size (0.05, 0.05) at (0.5, 0.5)
\* is tapped at native pixel (1008, 540).
C22_TapAtNativeCenter ==
    [][/\ \A key \in Keys, i \in DOMAIN keymaps :
             Activates(key, i) => TapAtNativeCenter(keymaps[i])
       /\ ScenarioActivated => TapDispatchedAt(1008, 540)]_vars

\* C22 amended: the same, with the keymap of size (0.05, 0.05) at (0.5, 0.5)
\* tapped at native pixel (1008, 567): 540 + 27 on the vertical axis.
C22_TapAtNativeCenter567 ==
    [][/\ \A key \in Keys, i \in DOMAIN keymaps :
             Activates(key, i) => TapAtNativeCenter(keymaps[i])
       /\ ScenarioActivated => TapDispatchedAt(1008, 567)]_vars

\* the scenario keymap was tapped while the overlay was 800 x 600
C22_Witness ==
    /\ lastEvent = "keyPressEvent"
    /\ lastKey = "Key_A"
    /\ overlayGeom.w = 800
    /\ spawned # <<>>
    /\ spawned[Len(spawned)].cmd = TapCommand(scrcpy_display_id[currentPage], 1008, 567)

\* the record of keymaps.json at position i carries a true "hold" key
HoldFlag(i) ==
    /\ "hold" \in DOMAIN keymap_file.data[i]
    /\ keymap_file.data[i].hold

\* cmd is a swipe that starts and ends at the same point
IsZeroDistanceSwipe(cmd) ==
    /\ cmd.kind = "swipe"
    /\ cmd.x2 = cmd.x
    /\ cmd.y2 = cmd.y

\* C23: a play-mode key press that activates a keymap dispatches exactly one
\* command: a zero-distance swipe when the keymap's record has the hold flag
\* set, a tap when it has not.
C23_HoldDispatchesSwipe ==
    [][\A key \in Keys, i \in DOMAIN keymaps :
          Activates(key, i) =>
             /\ Len(spawned') = Len(spawned) + 1
             /\ IF HoldFlag(i)
                THEN IsZeroDistanceSwipe(spawned'[Len(spawned')].cmd)
                ELSE spawned'[Len(spawned')].cmd.kind = "tap"]_vars

\* an Escape press reaches MyQtApp.keyPressEvent in play mode
EscapePress ==
    /\ ~app_edit_mode
    /\ AppKeyPressEvent("Key_Escape")

\* the step handed exactly one command to subprocess.Popen, the back keyevent
BackSent ==
    /\ Len(spawned') = Len(spawned) + 1
    /\ spawned'[Len(spawned')].cmd = KeyeventCommand("KEYCODE_BACK")

\* C24 as stated: a play-mode press of Escape never activates a keymap and
\* always results in the back keyevent being sent.
C24_EscapeAlwaysBack ==
    [][EscapePress => BackSent]_vars

\* C24 amended: a play-mode press of Escape never activates a keymap; it
\* results in the back keyevent being handed to the channel when the display id
\* of the current page is known, and in no command at all when it is not.
C24_EscapeBackWhenDisplayKnown ==
    [][EscapePress =>
          IF scrcpy_display_id[currentPage] # "None" THEN BackSent
          ELSE spawned' = spawned]_vars

\* Escape was pressed while the first keymap of the list was bound to Escape,
\* and the back keyevent went out
C24_Witness ==
    /\ lastEvent = "keyPressEvent"
    /\ lastKey = "Key_Escape"
    /\ keymaps # <<>>
    /\ keymaps[1].keycombo = <<"Key_Escape">>
    /\ spawned # <<>>
    /\ spawned[Len(spawned)].cmd = KeyeventCommand("KEYCODE_BACK")

\* positions in list of the keymaps with the one-key combo key
OneKeyMatches(list, key) == {i \in DOMAIN list : list[i].keycombo = <<key>>}

\* the first key press after edit mode was left reaches play mode while the
\* display id is known; emitted.payload is the list the edit session handed out
\* on leaving
KeyAfterEditing(key) ==
    /\ lastEvent = "toggle_edit_mode"
    /\ emitted.fired
    /\ PlayKeyPress(key)

\* the step dispatched one tap at the native center of keymap
TappedKeymap(keymap) ==
    /\ Len(spawned') = Len(spawned) + 1
    /\ \E c \in NativeCenters(keymap) :
          spawned'[Len(spawned')].cmd = TapCommand(scrcpy_display_id[currentPage], c[1], c[2])

\* C25: play-mode matching works on the list the edit session worked on: the
\* very next key press after edit mode is left activates the first keymap with
\* that key in the list the edit session ended with, at the position the
\* session gave it, and nothing when that list has no such keymap.
C25_PlaySeesEdits ==
    [][\A key \in Keys \ {"Key_Escape"} :
          KeyAfterEditing(key) =>
             IF OneKeyMatches(emitted.payload, key) # {}
             THEN TappedKeymap(emitted.payload[SetMin(OneKeyMatches(emitted.payload, key))])
             ELSE spawned' = spawned]_vars

\* a keymap created by a click at (100,100) in an empty list and bound to A in
\* the edit session was activated by A in play mode
C25_Witness ==
    /\ lastEvent = "keyPressEvent"
    /\ ~app_edit_mode
    /\ keymaps = <<[DefaultKeymapAt(1, <<100, 100>>) EXCEPT !.keycombo = <<"Key_A">>]>>
    /\ spawned # <<>>
    /\ spawned[Len(spawned)].cmd.kind = "tap"

-----------------------------------------------------------------------------
(* Claims about the keymap file *)

\* the well-formed records of a decodable keymaps.json, in file order, as keymaps
ValidRecords(file) ==
    LET valid == SelectSeq(file.data, WellFormed)
    IN [i \in DOMAIN valid |-> FromDict(i, valid[i])]

\* C26: when the program is started with a decodable keymaps.json, the list it
\* loads consists of the well-formed records of the file in their order; a
\* malformed record is skipped and the others are kept.
C26_LoadSkipsMalformed ==
    [][(keymap_file.exists /\ keymap_file.valid /\ Restart) =>
          SameRecords(keymaps', ValidRecords(keymap_file))]_vars

\* the terminal step of a mutating transition or the exit from edit mode, with
\* the pointer at any position
MutationStep ==
    \/ \E p \in Points \cup StorePoints :
          CreationRelease(p) \/ MoveRelease(p) \/ DeleteByPointer(p)
    \/ DeleteByKey
    \/ \E key \in Keys \ ModifierKeys : KeyWhileSelected(key)
    \/ ExitEditMode

\* C27: a mutation whose save fails is completed in memory all the same: the
\* store it leaves is the list that was handed to the save, the handler returns
\* and the file is not what the store says. The mutation that follows a failed
\* save attempts the save again with the store as it then is, and when the disk
\* takes the write the file holds that store.
C27_WriteFailureKeepsSession ==
    [][/\ (MutationStep /\ ~diskWritable) =>
             /\ saveOutcome' = "error"
             /\ emitted' = Emission(keymaps')
             /\ lastEvent' \in {"mousePressEvent", "mouseReleaseEvent", "keyPressEvent",
                                "toggle_edit_mode"}
       /\ (MutationStep /\ saveOutcome = "error") =>
             /\ saveOutcome' \in {"saved", "error"}
             /\ emitted' = Emission(keymaps')
             /\ diskWritable =>
                   /\ saveOutcome' = "saved"
                   /\ SameRecords(LoadedKeymaps(keymap_file'), keymaps')]_vars

\* a save failed, the store has the keymap whose deletion could not be written
\* reverted in no way: memory is one keymap short of the readable file
C27_Witness ==
    /\ saveOutcome = "error"
    /\ keymap_file.exists /\ keymap_file.valid
    /\ Len(keymaps) = 1
    /\ Len(LoadedKeymaps(keymap_file)) = 2

-----------------------------------------------------------------------------
(* Claims about the edit-mode hit test *)

\* a left press at p reaches the overlay in edit mode
EditPress(p) ==
    /\ edit_mode_active
    /\ MousePressEvent(p, "Left")

\* p is on the delete button of the selected keymap
OnSelectedDeleteButton(p) ==
    /\ selected_keymap_for_combo_edit # None
    /\ XButtonContains(KeymapById(keymaps, selected_keymap_for_combo_edit), p)

\* indices of the keymaps whose rectangle contains p
Containing(p) == {i \in DOMAIN keymaps : KeymapRectContains(keymaps[i], p)}

\* C28: an edit-mode left press on the delete button of the selected keymap
\* removes that keymap and neither picks a keymap nor creates one, whatever
\* keymaps contain the point; otherwise the press picks the first keymap in list
\* order that contains the point and the list stays as it is; only when no keymap
\* contains the point is a placeholder appended and picked.
C28_HitTestPrecedence ==
    [][\A p \in Points : EditPress(p) =>
          IF OnSelectedDeleteButton(p)
          THEN /\ RemovedExactly(keymaps, keymaps', selected_keymap_for_combo_edit)
               /\ dragging_keymap' = dragging_keymap
               /\ creating_keymap' = creating_keymap
          ELSE IF Containing(p) # {}
          THEN /\ \E i \in Containing(p) :
                     /\ \A j \in Containing(p) : i <= j
                     /\ dragging_keymap' = keymaps[i].id
               /\ keymaps' = keymaps
          ELSE /\ creating_keymap'
               /\ Len(keymaps') = Len(keymaps) + 1
               /\ SubSeq(keymaps', 1, Len(keymaps)) = keymaps
               /\ dragging_keymap' = keymaps'[Len(keymaps')].id]_vars

\* a press landed on a point that two keymaps contain and the one that comes
\* first in the list was picked
C28_Witness ==
    /\ lastEvent \in {"mousePressEvent", "mousePressEvent deselecting"}
    /\ edit_mode_active
    /\ \E i, j \in DOMAIN keymaps :
          /\ i < j
          /\ KeymapRectContains(keymaps[i], drag_start_pos_local)
          /\ KeymapRectContains(keymaps[j], drag_start_pos_local)
          /\ dragging_keymap = keymaps[i].id

-----------------------------------------------------------------------------
(* Claims about the stream reader *)

\* C29: whatever the interleaving of scrcpy's writes, the reader thread's steps
\* and the UI thread's polls, readline can always return (it never waits for the
\* thread or for the stream); a call returns the line at the head of the queue
\* and takes it off, or None when the queue is empty; and the lines returned so
\* far, followed by the queued ones, the one the thread holds and the unread
\* ones, are the lines of the stream in stream order, each exactly once.
C29_ReadlineNeverBlocksInOrder ==
    /\ [](scrcpy_stdout_reader = "reader" =>
             /\ ENABLED Readline
             /\ returned \o reader_queue
                   \o (IF reader_line \in {"None", ""} THEN <<>> ELSE <<reader_line>>)
                   \o stdout_pipe = written)
    /\ [][Readline =>
             IF reader_queue = <<>>
             THEN polled' = "None" /\ returned' = returned
             ELSE /\ polled' = Head(reader_queue)
                  /\ returned' = Append(returned, polled')
                  /\ reader_queue' = Tail(reader_queue)]_vars

\* three lines, a blank one among them, were written and all of them returned,
\* the stream is at end of file and the last poll found the queue empty
C29_Witness ==
    /\ Len(returned) = 3
    /\ returned = written
    /\ \E i \in DOMAIN returned : returned[i] = "\n"
    /\ polled = "None"
    /\ stdout_eof

-----------------------------------------------------------------------------
(* Claims about the pending modifier *)

\* C30: in every reachable state in which no keymap is selected the pending
\* modifier is empty, so that a modifier pressed for one selection cannot go
\* into the combo of a later one.
C30_PendingModifierWithSelection ==
    selected_keymap_for_combo_edit = None => pending_modifier_key = "None"

-----------------------------------------------------------------------------
(* Claims about the integrity of the edit session *)

\* C31: in every reachable state the selected keymap and the dragged keymap,
\* when set, are elements of the keymap list, and the creating flag is set only
\* while the dragged keymap is the placeholder at the end of the list (no combo
\* yet); and no step removes a keymap other than that placeholder or the
\* selected keymap.
C31_SessionRefersToStore ==
    /\ [](/\ selected_keymap_for_combo_edit # None =>
                selected_keymap_for_combo_edit \in Ids(keymaps)
          /\ dragging_keymap # None => dragging_keymap \in Ids(keymaps)
          /\ creating_keymap =>
                /\ keymaps # <<>>
                /\ dragging_keymap = keymaps[Len(keymaps)].id
                /\ keymaps[Len(keymaps)].keycombo = <<>>)
    /\ [][lastEvent' # "restart" =>
             \A id \in Ids(keymaps) \ Ids(keymaps') :
                 \/ id = selected_keymap_for_combo_edit
                 \/ creating_keymap /\ id = dragging_keymap
                                    /\ id = keymaps[Len(keymaps)].id]_vars

\* C32: while edit mode is inactive, a pointer press, move or release and a key
\* press leave the keymap list, the dragged keymap, the creating flag, the
\* selected keymap and the pending modifier as they are, emit no keymaps_changed
\* and write no file.
C32_InactiveEditIgnoresInput ==
    [][(/\ ~edit_mode_active
        /\ \/ \E p \in Points, b \in Buttons :
                 MousePressEvent(p, b) \/ MouseMoveEvent(p) \/ MouseReleaseEvent(p, b)
           \/ \E key \in Keys : AppKeyPressEvent(key)) =>
          /\ UNCHANGED <<keymaps, dragging_keymap, creating_keymap,
                         selected_keymap_for_combo_edit, pending_modifier_key>>
          /\ emitted' = NoEmission
          /\ saveOutcome' = "none"
          /\ keymap_file' = keymap_file]_vars

\* a left press reached the overlay outside edit mode, after an edit session in
\* which a keymap had been created
C32_Witness ==
    /\ ~edit_mode_active
    /\ lastEvent = "mousePressEvent"
    /\ Len(keymaps) = 3
    /\ emitted = NoEmission

-----------------------------------------------------------------------------
(* Claims about the display id guard *)

\* C33: a step hands a command to subprocess.Popen only when the display id of
\* the current page has been detected; a play-mode key press while it is unknown
\* dispatches nothing, and when the key is Escape or matches a keymap the press
\* is accepted all the same (not passed on).
C33_NoCommandWithoutDisplayId ==
    [][/\ spawned' # spawned =>
             currentPage \in Pages /\ scrcpy_display_id[currentPage] # "None"
       /\ \A key \in Keys :
             (/\ ~app_edit_mode
              /\ scrcpy_display_id[currentPage] = "None"
              /\ AppKeyPressEvent(key)) =>
                /\ spawned' = spawned
                /\ (key = "Key_Escape" \/ PlayMatches(key) # {}) =>
                      lastEvent' = "keyPressEvent"]_vars

\* a play-mode press of A, which matches a keymap, was accepted while the
\* display id of the current page was unknown, and nothing was dispatched
C33_Witness ==
    /\ ~app_edit_mode
    /\ scrcpy_display_id[currentPage] = "None"
    /\ lastEvent = "keyPressEvent"
    /\ lastKey = "Key_A"
    /\ PlayMatches("Key_A") # {}
    /\ spawned = <<>>

-----------------------------------------------------------------------------
(* Claims about the end of the reader thread *)

\* C34: once scrcpy's stdout is at end of stream, the reader thread, scheduled
\* fairly, eventually leaves its loop, closes the stream and is over.
C34_ReaderStopsAtEof == stdout_eof ~> (reader_line = "closed")

-----------------------------------------------------------------------------
(* Claims about the scrcpy process of a page *)

\* C35: whenever the display id of the page is set, a process is stored and the
\* id is the one that process printed: it is the display of the current run.
C35_DisplayIdOfCurrentRun ==
    scrcpy_display_id[1] # "None" =>
        /\ scrcpy_process # None
        /\ scrcpy_display_id[1] = DisplayIdOfRun(scrcpy_process)

C37_EmbedRetriesOnlyForLiveRun ==
    [][\A c \in 1..MaxStarts : FindAndEmbedScrcpy(c) =>
          /\ c \in find_callbacks' =>
                /\ scrcpy_process \in running
                /\ scrcpy_container_widget # scrcpy_process
          /\ c \notin running =>
                /\ scrcpy_hwnd' = scrcpy_hwnd
                /\ scrcpy_container_widget' = scrcpy_container_widget
                /\ c \notin find_callbacks'
          /\ scrcpy_container_widget' # scrcpy_container_widget =>
                scrcpy_container_widget # scrcpy_process]_vars

-----------------------------------------------------------------------------
(* Claims about the primitive-based overlay *)

\* C38: after a move event on the selected circle being moved, when its radius
\* is at most half of each device dimension, the centre lies within
\* [radius, device_width - radius] x [radius, device_height - radius].
C38_MovedCircleInsideDevice ==
    [][\A pos \in PrimitivePoints :
          (/\ primitive_being_moved /\ selected_primitive
           /\ 2 * dimensions <= device_width /\ 2 * dimensions <= device_height
           /\ PrimitiveMouseMoveEvent(pos)) =>
              /\ dimensions <= center_coords'[1]
              /\ center_coords'[1] <= device_width - dimensions
              /\ dimensions <= center_coords'[2]
              /\ center_coords'[2] <= device_height - dimensions]_vars

\* a circle of radius 100 was dragged with the pointer far beyond the bottom
\* right corner and rests against both far edges
C38_Witness ==
    /\ lastEvent = "mouseMoveEvent on circle"
    /\ primitive_being_moved
    /\ dimensions = 100
    /\ center_coords = <<device_width - 100, device_height - 100>>
    /\ start_point = <<2200, 1400>>

-----------------------------------------------------------------------------
(* Claims about the settings dialog *)

\* C39: in an open settings dialog the General tab is at index 0 and at least
\* one instance tab remains (tab count >= 2) after any sequence of add and
\* remove operations; a remove request on the General tab or on the last
\* instance tab leaves the tabs unchanged.
C39_GeneralAndOneInstanceRemain ==
    /\ [](tabs # <<>> => tabs[1] = "General" /\ Len(tabs) >= 2)
    /\ [][(tabs # <<>> /\ (current_tab = 0 \/ Len(tabs) = 2) /\ RemoveCurrentTab) =>
             UNCHANGED tabVars]_vars

\* a remove request was refused on the last instance tab after an earlier one
\* had removed a tab
C39_Witness ==
    /\ lastEvent = "_remove_current_tab refused"
    /\ Len(tabs) = 2
    /\ current_tab = 1
    /\ tabs = <<"General", DefaultInstanceName(2)>>

====
